---- MODULE Spec2Model ----
(***************************************************************************)
(* Model of the celes crate (ISO 3166-1 country lookup).                   *)
(*                                                                         *)
(* The crate is a set of pure lookups over compiled-in tables: the         *)
(* country!(...) constructors, the lookup!(...) alias tables, the array    *)
(* returned by get_countries(), and one phf_map per resolver.  The tables  *)
(* are transcribed literally; the resolvers are operators over them.  The  *)
(* state machine is a caller that invokes one operation on one input and   *)
(* observes the result.                                                    *)
(*                                                                         *)
(* Strings are TLA+ strings; characters are strings of length one.         *)
(***************************************************************************)
EXTENDS Integers, Sequences, FiniteSets, TLC

VARIABLES op, input, ret

vars == <<op, input, ret>>

(***************************************************************************)
(* Bounds of the model.                                                    *)
(***************************************************************************)
\* from_value is called with every integer in 0..MaxValue.
MaxValue == 999

\* The number of concurrent callers of the lookups.
MaxCallers == 2

\* A struct literal takes a field from one of the MaxShift records that follow
\* its base record in get_countries().
MaxShift == 2

(***************************************************************************)
(* Strings.                                                                *)
(***************************************************************************)
Range(f) == {f[i] : i \in DOMAIN f}

\* The letters of the crate's data that have a case: ASCII plus U+00DC/U+00FC.
UPPERCASE == "ABCDEFGHIJKLMNOPQRSTUVWXYZÜ"
LOWERCASE == "abcdefghijklmnopqrstuvwxyzü"

CharAt(s, i) == SubSeq(s, i, i)

ToLower == [c \in {CharAt(UPPERCASE, i) : i \in 1..Len(UPPERCASE)} |->
              CharAt(LOWERCASE, CHOOSE i \in 1..Len(UPPERCASE) : CharAt(UPPERCASE, i) = c)]

ToUpper == [c \in {CharAt(LOWERCASE, i) : i \in 1..Len(LOWERCASE)} |->
              CharAt(UPPERCASE, CHOOSE i \in 1..Len(LOWERCASE) : CharAt(LOWERCASE, i) = c)]

\* char::to_lowercase on the characters of the data.
char_to_lowercase(c) == IF c \in DOMAIN ToLower THEN ToLower[c] ELSE c

char_to_uppercase(c) == IF c \in DOMAIN ToUpper THEN ToUpper[c] ELSE c

\* str::to_lowercase: every character replaced by its lower-case form.
RECURSIVE to_lowercase(_)
to_lowercase(s) ==
  IF s = "" THEN "" ELSE char_to_lowercase(Head(s)) \o to_lowercase(Tail(s))

RECURSIVE to_uppercase(_)
to_uppercase(s) ==
  IF s = "" THEN "" ELSE char_to_uppercase(Head(s)) \o to_uppercase(Tail(s))

\* str::replace(from, to) for a one-character pattern.
RECURSIVE replace(_, _, _)
replace(s, from, to) ==
  IF s = "" THEN ""
  ELSE (IF Head(s) = from THEN to ELSE Head(s)) \o replace(Tail(s), from, to)

(***************************************************************************)
(* Option and Result.                                                      *)
(***************************************************************************)
Some(v) == [some |-> TRUE, v |-> v]
None == [some |-> FALSE]
Ok(v) == [ok |-> TRUE, val |-> v]
Err(e) == [ok |-> FALSE, err |-> e]

\* Option::ok_or
ok_or(o, e) == IF o.some THEN Ok(o.v) ELSE Err(e)

\* Mutant of get: a missing key yields the entry of some key of the map.
get_or_any(map, key) ==
  IF key \in DOMAIN map THEN Some(map[key])
  ELSE Some(map[CHOOSE k \in DOMAIN map : TRUE])

\* phf::Map::get followed by .copied()
get(map, key) == IF key \in DOMAIN map THEN Some(map[key]) ELSE None

(***************************************************************************)
(* Alias tables (tables.rs).                                               *)
(***************************************************************************)
\* lookup!(name, enum, long_name, len, alias => loweralias, ...)
lookup(name, enum, long_name, aliases, loweralias) ==
  [name |-> name, enum |-> enum, long_name |-> long_name,
   aliases |-> aliases, loweralias |-> loweralias]

EMPTY_LOOKUP_TABLE ==
  [name |-> "EmptyLookupTable", enum |-> "Empty", long_name |-> "",
   aliases |-> <<>>, loweralias |-> <<>>]

\* $name::const_default().into_country_table(): the CountryTable variant
\* wrapping the table's alias array.
into_country_table(table) == [variant |-> table.enum, items |-> table.aliases]

\* LookupTable::len and LookupTable::iter of CountryTable
len(t) == Len(t.items)
iter(t) == t.items

(* tables.rs: one lookup!(...) invocation per alias table. Each entry keeps the   *)
(* enum variant, the documented long name, the alias array, and the lower-case    *)
(* patterns that `contains` matches against.                                      *)
Tables ==
  [ SamoaTable |-> lookup("SamoaTable", "Samoa", "American Samoa", <<"Samoa">>, <<"samoa">>),
    SaintHelenaTable |-> lookup("SaintHelenaTable", "SaintHelena", "Ascension And Tristan Da Cunha Saint Helena", <<"StHelena", "SaintHelena">>, <<"sthelena", "sainthelena">>),
    VenezuelaTable |-> lookup("VenezuelaTable", "Venezuela", "Bolivarian Republic Of Venezuela", <<"Venezuela">>, <<"venezuela">>),
    BosniaTable |-> lookup("BosniaTable", "Bosnia", "Bosnia And Herzegovina", <<"Bosnia", "Herzegovina">>, <<"bosnia", "herzegovina">>),
    BruneiTable |-> lookup("BruneiTable", "Brunei", "Brunei Darussalam", <<"Brunei">>, <<"brunei">>),
    BurkinaTable |-> lookup("BurkinaTable", "Burkina", "Burkina Faso", <<"Burkina">>, <<"burkina">>),
    StMaartenTable |-> lookup("StMaartenTable", "StMaarten", "Dutch Part Sint Maarten", <<"StMaarten", "SaintMaarten">>, <<"stmaarten", "saintmaarten">>),
    MicronesiaTable |-> lookup("MicronesiaTable", "Micronesia", "Federated States Of Micronesia", <<"Micronesia">>, <<"micronesia">>),
    StMartinTable |-> lookup("StMartinTable", "StMartin", "French Part Saint Martin", <<"StMartin", "SaintMartin">>, <<"stmartin", "saintmartin">>),
    HeardIslandTable |-> lookup("HeardIslandTable", "HeardIsland", "Heard Island And Mc Donald Islands", <<"HeardIsland", "McDonaldIslands">>, <<"heardisland", "mcDonaldislands">>),
    IranTable |-> lookup("IranTable", "Iran", "Islamic Republic Of Iran", <<"Iran">>, <<"iran">>),
    MacedoniaTable |-> lookup("MacedoniaTable", "Macedonia", "Republic Of North Macedonia", <<"Macedonia">>, <<"macedonia">>),
    StBarthelemyTable |-> lookup("StBarthelemyTable", "StBarthelemy", "Saint Barthelemy", <<"StBarthelemy">>, <<"stbarthelemy">>),
    StKittsTable |-> lookup("StKittsTable", "StKitts", "Saint Kitts And Nevis", <<"StKitts">>, <<"stkitts">>),
    StLuciaTable |-> lookup("StLuciaTable", "StLucia", "Saint Lucia", <<"StLucia">>, <<"stlucia">>),
    StPierreTable |-> lookup("StPierreTable", "StPierre", "Saint Pierre And Miquelon", <<"StPierre", "SaintPierre">>, <<"stpierre", "saintpierre">>),
    StVincentTable |-> lookup("StVincentTable", "StVincent", "Saint Vincent And The Grenadines", <<"StVincent", "SaintVincent">>, <<"stvincent", "saintvincent">>),
    SaoTomeTable |-> lookup("SaoTomeTable", "SaoTome", "Sao Tome And Principe", <<"SaoTome">>, <<"saotome">>),
    SouthGeorgiaTable |-> lookup("SouthGeorgiaTable", "SouthGeorgia", "South Georgia And The South Sandwich Islands", <<"SouthGeorgia", "SouthSandwichIslands">>, <<"southgeorgia", "southsandwichislands">>),
    PalestineTable |-> lookup("PalestineTable", "Palestine", "State Of Palestine", <<"Palestine">>, <<"palestine">>),
    TaiwanTable |-> lookup("TaiwanTable", "Taiwan", "Taiwan Province Of China", <<"Taiwan">>, <<"taiwan">>),
    BahamasTable |-> lookup("BahamasTable", "Bahamas", "The Bahamas", <<"Bahamas">>, <<"bahamas">>),
    CaymanIslandsTable |-> lookup("CaymanIslandsTable", "CaymanIslands", "The Cayman Islands", <<"CaymanIslands">>, <<"caymanislands">>),
    CentralAfricanRepublicTable |-> lookup("CentralAfricanRepublicTable", "CentralAfricanRepublic", "The Central African Republic", <<"CentralAfricanRepublic">>, <<"centralafricanrepublic">>),
    CocosIslandsTable |-> lookup("CocosIslandsTable", "CocosIslands", "The Cocos Keeling Islands", <<"CocosIslands", "KeelingIslands">>, <<"cocosislands", "keelingislands">>),
    ComorosTable |-> lookup("ComorosTable", "Comoros", "The Comoros", <<"Comoros">>, <<"comoros">>),
    CongoTable |-> lookup("CongoTable", "Congo", "The Congo", <<"Congo">>, <<"congo">>),
    CookIslandsTable |-> lookup("CookIslandsTable", "CookIslands", "The Cook Islands", <<"CookIslands">>, <<"cookislands">>),
    NorthKoreaTable |-> lookup("NorthKoreaTable", "NorthKorea", "The Democratic Peoples Republic Of Korea", <<"NorthKorea", "DemocraticPeoplesRepublicOfKorea">>, <<"northkorea", "democraticpeoplesrepublicofkorea">>),
    DemocraticRepublicOfTheCongoTable |-> lookup("DemocraticRepublicOfTheCongoTable", "DemocraticRepublicOfTheCongo", "The Democratic Republic Of The Congo", <<"DemocraticRepublicOfTheCongo">>, <<"democraticrepublicofthecongo">>),
    DominicanRepublicTable |-> lookup("DominicanRepublicTable", "DominicanRepublic", "The Dominican Republic", <<"DominicanRepublic">>, <<"dominicanrepublic">>),
    MalvinasTable |-> lookup("MalvinasTable", "Malvinas", "The Falkland Islands Malvinas", <<"Malvinas", "FalklandIslands">>, <<"malvinas", "falklandislands">>),
    FaroeIslandsTable |-> lookup("FaroeIslandsTable", "FaroeIslands", "The Faroe Islands", <<"FaroeIslands">>, <<"faroeislands">>),
    FrenchSouthernTerritoriesTable |-> lookup("FrenchSouthernTerritoriesTable", "FrenchSouthernTerritories", "The French Southern Territories", <<"FrenchSouthernTerritories">>, <<"frenchsouthernterritories">>),
    GambiaTable |-> lookup("GambiaTable", "Gambia", "The Gambia", <<"Gambia">>, <<"gambia">>),
    HolySeeTable |-> lookup("HolySeeTable", "HolySee", "The Holy See", <<"HolySee", "Vatican", "VaticanCity">>, <<"holysee", "vatican", "vaticancity">>),
    LaoPeoplesDemocraticRepublicTable |-> lookup("LaoPeoplesDemocraticRepublicTable", "LaoPeoplesDemocraticRepublic", "The Lao Peoples Democratic Republic", <<"LaoPeoplesDemocraticRepublic", "Laos">>, <<"laopeoplesdemocraticrepublic", "laos">>),
    MarshallIslandsTable |-> lookup("MarshallIslandsTable", "MarshallIslands", "The Marshall Islands", <<"MarshallIslands">>, <<"marshallislands">>),
    NetherlandsTable |-> lookup("NetherlandsTable", "Netherlands", "The Netherlands", <<"Netherlands", "Holland">>, <<"netherlands", "holland">>),
    NigerTable |-> lookup("NigerTable", "Niger", "The Niger", <<"Niger">>, <<"niger">>),
    NorthernMarianaIslandsTable |-> lookup("NorthernMarianaIslandsTable", "NorthernMarianaIslands", "The Northern Mariana Islands", <<"NorthernMarianaIslands">>, <<"northernmarianaislands">>),
    PhilippinesTable |-> lookup("PhilippinesTable", "Philippines", "The Philippines", <<"Philippines">>, <<"philippines">>),
    SouthKoreaTable |-> lookup("SouthKoreaTable", "SouthKorea", "The Republic Of Korea", <<"SouthKorea", "RepublicOfKorea">>, <<"southkorea", "republicofkorea">>),
    MoldovaTable |-> lookup("MoldovaTable", "Moldova", "The Republic Of Moldova", <<"Moldova", "RepublicOfMoldova">>, <<"moldova", "republicofmoldova">>),
    RussiaTable |-> lookup("RussiaTable", "Russia", "The Russian Federation", <<"Russia", "RussianFederation">>, <<"russia", "russianfederation">>),
    SudanTable |-> lookup("SudanTable", "Sudan", "The Sudan", <<"Sudan">>, <<"sudan">>),
    TurksAndCaicosIslandsTable |-> lookup("TurksAndCaicosIslandsTable", "TurksAndCaicosIslands", "The Turks And Caicos Islands", <<"TurksAndCaicosIslands">>, <<"turksandcaicosislands">>),
    UnitedArabEmiratesTable |-> lookup("UnitedArabEmiratesTable", "UnitedArabEmirates", "The United Arab Emirates", <<"UnitedArabEmirates">>, <<"unitedarabemirates">>),
    EnglandTable |-> lookup("EnglandTable", "England", "The United Kingdom Of Great Britain And Northern Ireland", <<"England", "Scotland", "GreatBritain", "UnitedKingdom", "NorthernIreland", "UnitedKingdomOfGreatBritain", "UnitedKingdomOfGreatBritainAndNorthernIreland">>, <<"england", "scotland", "greatbritain", "unitedkingdom", "northernireland", "unitedkingdomofgreatbritain", "unitedkingdomofgreatbritainandnorthernireland">>),
    UnitedStatesMinorOutlyingIslandsTable |-> lookup("UnitedStatesMinorOutlyingIslandsTable", "UnitedStatesMinorOutlyingIslands", "The United States Minor Outlying Islands", <<"UnitedStatesMinorOutlyingIslands">>, <<"unitedstatesminoroutlyingislands">>),
    AmericaTable |-> lookup("AmericaTable", "America", "The United States Of America", <<"America", "UnitedStates", "UnitedStatesOfAmerica">>, <<"america", "unitedstates", "unitedstatesofamerica">>),
    TrinidadTable |-> lookup("TrinidadTable", "Trinidad", "Trinidad And Tobago", <<"Trinidad", "Tobago">>, <<"trinidad", "tobago">>),
    TanzaniaTable |-> lookup("TanzaniaTable", "Tanzania", "United Republic Of Tanzania", <<"Tanzania">>, <<"tanzania">>),
    TurkeyTable |-> lookup("TurkeyTable", "Turkey", "Türkiye", <<"Turkey">>, <<"turkey">>),
    TimorTable |-> lookup("TimorTable", "TimorLeste", "Timor-Leste", <<"EastTimor">>, <<"easttimor">>),
    CzechiaTable |-> lookup("CzechiaTable", "Czechia", "Czechia", <<"CzechRepublic">>, <<"czechrepublic">>),
    BurmaTable |-> lookup("BurmaTable", "Burma", "Myanmar", <<"Burma">>, <<"burma">>),
    SwazilandTable |-> lookup("SwazilandTable", "Swaziland", "Eswatini", <<"Swaziland">>, <<"swaziland">>),
    CapeVerdeTable |-> lookup("CapeVerdeTable", "CapeVerde", "Cabo Verde", <<"CapeVerde">>, <<"capeverde">>),
    IvoryCoastTable |-> lookup("IvoryCoastTable", "IvoryCoast", "Coted Ivoire", <<"IvoryCoast", "CoteDIvoire">>, <<"ivorycoast", "cotedivoire">>),
    SyriaTable |-> lookup("SyriaTable", "Syria", "Syrian Arab Republic", <<"Syria">>, <<"syria">>),
    MacauTable |-> lookup("MacauTable", "Macau", "Macao", <<"Macau">>, <<"macau">>),
    MyanmarTable |-> lookup("MyanmarTable", "Myanmar", "Myanmar", <<"Myanmar", "Burma">>, <<"myanmar", "burma">>),
    EswatiniTable |-> lookup("EswatiniTable", "Eswatini", "Eswatini", <<"Eswatini", "Swaziland">>, <<"eswatini", "swaziland">>),
    CaboVerdeTable |-> lookup("CaboVerdeTable", "CaboVerde", "Cabo Verde", <<"CaboVerde", "CapeVerde">>, <<"caboverde", "capeverde">>),
    CoteDIvoireTable |-> lookup("CoteDIvoireTable", "CoteDIvoire", "Coted Ivoire", <<"CoteDIvoire", "IvoryCoast">>, <<"cotedivoire", "ivorycoast">>),
    NorthMacedoniaTable |-> lookup("NorthMacedoniaTable", "NorthMacedonia", "Republic Of North Macedonia", <<"NorthMacedonia", "Macedonia">>, <<"northmacedonia", "macedonia">>),
    TurkiyeTable |-> lookup("TurkiyeTable", "Turkiye", "Türkiye", <<"Turkiye", "Turkey">>, <<"turkiye", "turkey">>) ]

\* str::is_ascii and str::len (bytes) over the characters of the crate's
\* data: U+00DC and U+00FC are the characters outside ASCII, two bytes each.
is_ascii(s) == \A i \in 1..Len(s) : CharAt(s, i) \notin {"Ü", "ü"}
byte_len(s) == Len(s) + Cardinality({i \in 1..Len(s) : CharAt(s, i) \in {"Ü", "ü"}})

\* <[u8]>::make_ascii_lowercase: only A..Z change.
RECURSIVE make_ascii_lowercase(_)
make_ascii_lowercase(s) ==
  IF s = "" THEN ""
  ELSE (IF CharAt(s, 1) \in DOMAIN ToLower /\ CharAt(s, 1) # "Ü"
        THEN ToLower[CharAt(s, 1)] ELSE CharAt(s, 1))
         \o make_ascii_lowercase(SubSeq(s, 2, Len(s)))

\* matches!(lowered, $($loweralias)|*)
matches(lowered, table) == \E i \in DOMAIN table.loweralias : lowered = table.loweralias[i]

\* LookupTable::contains of a lookup! table (64 is the length of its buffer)
\* and of EmptyLookupTable
contains(table, alias) ==
  IF table.name = "EmptyLookupTable" THEN FALSE
  ELSE IF byte_len(alias) <= 64 /\ is_ascii(alias)
       THEN matches(make_ascii_lowercase(alias), table)
       ELSE matches(to_lowercase(alias), table)

\* impl LookupTable for CountryTable: contains hands over to the table the
\* variant wraps.
country_table_contains(t, alias) ==
  IF t.variant = "Empty" THEN contains(EMPTY_LOOKUP_TABLE, alias)
  ELSE contains(Tables[CHOOSE n \in DOMAIN Tables : Tables[n].enum = t.variant], alias)

\* The CountryTable variants marked #[deprecated].
DeprecatedVariants ==
  {"Macedonia", "Turkey", "Burma", "Swaziland", "CapeVerde", "IvoryCoast"}

(***************************************************************************)
(* Country records (lib.rs).                                               *)
(***************************************************************************)
(* lib.rs: the country!(...) invocations of `impl Country`, one per constructor:   *)
(* <<code, value, alpha2, alpha3, long_name>>, followed, when the country has     *)
(* aliases, by the alias table and the alias literals of the invocation (a        *)
(* character outside Latin-1 is written by its code point, as in "U+53F0").        *)
Declarations ==
  [ afghanistan |->
      <<"004", 4, "AF", "AFG", "Afghanistan">>,
    aland_islands |->
      <<"248", 248, "AX", "ALA", "Aland Islands">>,
    albania |->
      <<"008", 8, "AL", "ALB", "Albania">>,
    algeria |->
      <<"012", 12, "DZ", "DZA", "Algeria">>,
    american_samoa |->
      <<"016", 16, "AS", "ASM", "American Samoa", "SamoaTable", "Samoa">>,
    andorra |->
      <<"020", 20, "AD", "AND", "Andorra">>,
    angola |->
      <<"024", 24, "AO", "AGO", "Angola">>,
    anguilla |->
      <<"660", 660, "AI", "AIA", "Anguilla">>,
    antarctica |->
      <<"010", 10, "AQ", "ATA", "Antarctica">>,
    antigua_and_barbuda |->
      <<"028", 28, "AG", "ATG", "Antigua And Barbuda">>,
    argentina |->
      <<"032", 32, "AR", "ARG", "Argentina">>,
    armenia |->
      <<"051", 51, "AM", "ARM", "Armenia">>,
    aruba |->
      <<"533", 533, "AW", "ABW", "Aruba">>,
    ascension_and_tristan_da_cunha_saint_helena |->
      <<"654", 654, "SH", "SHN", "Ascension And Tristan Da Cunha Saint Helena", "SaintHelenaTable", "StHelena", "SaintHelena">>,
    australia |->
      <<"036", 36, "AU", "AUS", "Australia">>,
    austria |->
      <<"040", 40, "AT", "AUT", "Austria">>,
    azerbaijan |->
      <<"031", 31, "AZ", "AZE", "Azerbaijan">>,
    bahrain |->
      <<"048", 48, "BH", "BHR", "Bahrain">>,
    bangladesh |->
      <<"050", 50, "BD", "BGD", "Bangladesh">>,
    barbados |->
      <<"052", 52, "BB", "BRB", "Barbados">>,
    belarus |->
      <<"112", 112, "BY", "BLR", "Belarus">>,
    belgium |->
      <<"056", 56, "BE", "BEL", "Belgium">>,
    belize |->
      <<"084", 84, "BZ", "BLZ", "Belize">>,
    benin |->
      <<"204", 204, "BJ", "BEN", "Benin">>,
    bermuda |->
      <<"060", 60, "BM", "BMU", "Bermuda">>,
    bhutan |->
      <<"064", 64, "BT", "BTN", "Bhutan">>,
    bolivarian_republic_of_venezuela |->
      <<"862", 862, "VE", "VEN", "Bolivarian Republic Of Venezuela", "VenezuelaTable", "Venezuela">>,
    bolivia |->
      <<"068", 68, "BO", "BOL", "Bolivia">>,
    bonaire |->
      <<"535", 535, "BQ", "BES", "Bonaire">>,
    bosnia_and_herzegovina |->
      <<"070", 70, "BA", "BIH", "Bosnia And Herzegovina", "BosniaTable", "Bosnia", "Herzegovina">>,
    botswana |->
      <<"072", 72, "BW", "BWA", "Botswana">>,
    bouvet_island |->
      <<"074", 74, "BV", "BVT", "Bouvet Island">>,
    brazil |->
      <<"076", 76, "BR", "BRA", "Brazil">>,
    british_indian_ocean_territory |->
      <<"086", 86, "IO", "IOT", "British Indian Ocean Territory">>,
    british_virgin_islands |->
      <<"092", 92, "VG", "VGB", "British Virgin Islands">>,
    brunei_darussalam |->
      <<"096", 96, "BN", "BRN", "Brunei Darussalam", "BruneiTable", "Brunei">>,
    bulgaria |->
      <<"100", 100, "BG", "BGR", "Bulgaria">>,
    burkina_faso |->
      <<"854", 854, "BF", "BFA", "Burkina Faso", "BurkinaTable", "Burkina">>,
    burundi |->
      <<"108", 108, "BI", "BDI", "Burundi">>,
    cabo_verde |->
      <<"132", 132, "CV", "CPV", "Cabo Verde">>,
    cambodia |->
      <<"116", 116, "KH", "KHM", "Cambodia">>,
    cameroon |->
      <<"120", 120, "CM", "CMR", "Cameroon">>,
    canada |->
      <<"124", 124, "CA", "CAN", "Canada">>,
    chad |->
      <<"148", 148, "TD", "TCD", "Chad">>,
    chile |->
      <<"152", 152, "CL", "CHL", "Chile">>,
    china |->
      <<"156", 156, "CN", "CHN", "China">>,
    christmas_island |->
      <<"162", 162, "CX", "CXR", "Christmas Island">>,
    colombia |->
      <<"170", 170, "CO", "COL", "Colombia">>,
    costa_rica |->
      <<"188", 188, "CR", "CRI", "Costa Rica">>,
    coted_ivoire |->
      <<"384", 384, "CI", "CIV", "Coted Ivoire">>,
    croatia |->
      <<"191", 191, "HR", "HRV", "Croatia">>,
    cuba |->
      <<"192", 192, "CU", "CUB", "Cuba">>,
    curacao |->
      <<"531", 531, "CW", "CUW", "Curacao">>,
    cyprus |->
      <<"196", 196, "CY", "CYP", "Cyprus">>,
    czechia |->
      <<"203", 203, "CZ", "CZE", "Czechia", "CzechiaTable", "CzechRepublic">>,
    denmark |->
      <<"208", 208, "DK", "DNK", "Denmark">>,
    djibouti |->
      <<"262", 262, "DJ", "DJI", "Djibouti">>,
    dominica |->
      <<"212", 212, "DM", "DMA", "Dominica">>,
    dutch_part_sint_maarten |->
      <<"534", 534, "SX", "SXM", "Dutch Part Sint Maarten", "StMaartenTable", "StMaarten", "SaintMaarten">>,
    ecuador |->
      <<"218", 218, "EC", "ECU", "Ecuador">>,
    egypt |->
      <<"818", 818, "EG", "EGY", "Egypt">>,
    el_salvador |->
      <<"222", 222, "SV", "SLV", "El Salvador">>,
    equatorial_guinea |->
      <<"226", 226, "GQ", "GNQ", "Equatorial Guinea">>,
    eritrea |->
      <<"232", 232, "ER", "ERI", "Eritrea">>,
    estonia |->
      <<"233", 233, "EE", "EST", "Estonia">>,
    eswatini |->
      <<"748", 748, "SZ", "SWZ", "Eswatini">>,
    ethiopia |->
      <<"231", 231, "ET", "ETH", "Ethiopia">>,
    federated_states_of_micronesia |->
      <<"583", 583, "FM", "FSM", "Federated States Of Micronesia", "MicronesiaTable", "Micronesia">>,
    fiji |->
      <<"242", 242, "FJ", "FJI", "Fiji">>,
    finland |->
      <<"246", 246, "FI", "FIN", "Finland">>,
    france |->
      <<"250", 250, "FR", "FRA", "France">>,
    french_guiana |->
      <<"254", 254, "GF", "GUF", "French Guiana">>,
    french_part_saint_martin |->
      <<"663", 663, "MF", "MAF", "French Part Saint Martin", "StMartinTable", "StMartin", "SaintMartin">>,
    french_polynesia |->
      <<"258", 258, "PF", "PYF", "French Polynesia">>,
    gabon |->
      <<"266", 266, "GA", "GAB", "Gabon">>,
    georgia |->
      <<"268", 268, "GE", "GEO", "Georgia">>,
    germany |->
      <<"276", 276, "DE", "DEU", "Germany">>,
    ghana |->
      <<"288", 288, "GH", "GHA", "Ghana">>,
    gibraltar |->
      <<"292", 292, "GI", "GIB", "Gibraltar">>,
    greece |->
      <<"300", 300, "GR", "GRC", "Greece">>,
    greenland |->
      <<"304", 304, "GL", "GRL", "Greenland">>,
    grenada |->
      <<"308", 308, "GD", "GRD", "Grenada">>,
    guadeloupe |->
      <<"312", 312, "GP", "GLP", "Guadeloupe">>,
    guam |->
      <<"316", 316, "GU", "GUM", "Guam">>,
    guatemala |->
      <<"320", 320, "GT", "GTM", "Guatemala">>,
    guernsey |->
      <<"831", 831, "GG", "GGY", "Guernsey">>,
    guinea |->
      <<"324", 324, "GN", "GIN", "Guinea">>,
    guinea_bissau |->
      <<"624", 624, "GW", "GNB", "Guinea Bissau">>,
    guyana |->
      <<"328", 328, "GY", "GUY", "Guyana">>,
    haiti |->
      <<"332", 332, "HT", "HTI", "Haiti">>,
    heard_island_and_mc_donald_islands |->
      <<"334", 334, "HM", "HMD", "Heard Island And Mc Donald Islands", "HeardIslandTable", "HeardIsland", "McDonaldIslands">>,
    honduras |->
      <<"340", 340, "HN", "HND", "Honduras">>,
    hong_kong |->
      <<"344", 344, "HK", "HKG", "Hong Kong">>,
    hungary |->
      <<"348", 348, "HU", "HUN", "Hungary">>,
    iceland |->
      <<"352", 352, "IS", "ISL", "Iceland">>,
    india |->
      <<"356", 356, "IN", "IND", "India">>,
    indonesia |->
      <<"360", 360, "ID", "IDN", "Indonesia">>,
    iraq |->
      <<"368", 368, "IQ", "IRQ", "Iraq">>,
    ireland |->
      <<"372", 372, "IE", "IRL", "Ireland">>,
    islamic_republic_of_iran |->
      <<"364", 364, "IR", "IRN", "Islamic Republic Of Iran", "IranTable", "Iran">>,
    isle_of_man |->
      <<"833", 833, "IM", "IMN", "Isle Of Man">>,
    israel |->
      <<"376", 376, "IL", "ISR", "Israel">>,
    italy |->
      <<"380", 380, "IT", "ITA", "Italy">>,
    jamaica |->
      <<"388", 388, "JM", "JAM", "Jamaica">>,
    japan |->
      <<"392", 392, "JP", "JPN", "Japan">>,
    jersey |->
      <<"832", 832, "JE", "JEY", "Jersey">>,
    jordan |->
      <<"400", 400, "JO", "JOR", "Jordan">>,
    kazakhstan |->
      <<"398", 398, "KZ", "KAZ", "Kazakhstan">>,
    kenya |->
      <<"404", 404, "KE", "KEN", "Kenya">>,
    kiribati |->
      <<"296", 296, "KI", "KIR", "Kiribati">>,
    kosovo |->
      <<"383", 383, "XK", "XKX", "Kosovo">>,
    kuwait |->
      <<"414", 414, "KW", "KWT", "Kuwait">>,
    kyrgyzstan |->
      <<"417", 417, "KG", "KGZ", "Kyrgyzstan">>,
    latvia |->
      <<"428", 428, "LV", "LVA", "Latvia">>,
    lebanon |->
      <<"422", 422, "LB", "LBN", "Lebanon">>,
    lesotho |->
      <<"426", 426, "LS", "LSO", "Lesotho">>,
    liberia |->
      <<"430", 430, "LR", "LBR", "Liberia">>,
    libya |->
      <<"434", 434, "LY", "LBY", "Libya">>,
    liechtenstein |->
      <<"438", 438, "LI", "LIE", "Liechtenstein">>,
    lithuania |->
      <<"440", 440, "LT", "LTU", "Lithuania">>,
    luxembourg |->
      <<"442", 442, "LU", "LUX", "Luxembourg">>,
    macao |->
      <<"446", 446, "MO", "MAC", "Macao">>,
    madagascar |->
      <<"450", 450, "MG", "MDG", "Madagascar">>,
    malawi |->
      <<"454", 454, "MW", "MWI", "Malawi">>,
    malaysia |->
      <<"458", 458, "MY", "MYS", "Malaysia">>,
    maldives |->
      <<"462", 462, "MV", "MDV", "Maldives">>,
    mali |->
      <<"466", 466, "ML", "MLI", "Mali">>,
    malta |->
      <<"470", 470, "MT", "MLT", "Malta">>,
    martinique |->
      <<"474", 474, "MQ", "MTQ", "Martinique">>,
    mauritania |->
      <<"478", 478, "MR", "MRT", "Mauritania">>,
    mauritius |->
      <<"480", 480, "MU", "MUS", "Mauritius">>,
    mayotte |->
      <<"175", 175, "YT", "MYT", "Mayotte">>,
    mexico |->
      <<"484", 484, "MX", "MEX", "Mexico">>,
    monaco |->
      <<"492", 492, "MC", "MCO", "Monaco">>,
    mongolia |->
      <<"496", 496, "MN", "MNG", "Mongolia">>,
    montenegro |->
      <<"499", 499, "ME", "MNE", "Montenegro">>,
    montserrat |->
      <<"500", 500, "MS", "MSR", "Montserrat">>,
    morocco |->
      <<"504", 504, "MA", "MAR", "Morocco">>,
    mozambique |->
      <<"508", 508, "MZ", "MOZ", "Mozambique">>,
    myanmar |->
      <<"104", 104, "MM", "MMR", "Myanmar">>,
    namibia |->
      <<"516", 516, "NA", "NAM", "Namibia">>,
    nauru |->
      <<"520", 520, "NR", "NRU", "Nauru">>,
    nepal |->
      <<"524", 524, "NP", "NPL", "Nepal">>,
    new_caledonia |->
      <<"540", 540, "NC", "NCL", "New Caledonia">>,
    new_zealand |->
      <<"554", 554, "NZ", "NZL", "New Zealand">>,
    nicaragua |->
      <<"558", 558, "NI", "NIC", "Nicaragua">>,
    nigeria |->
      <<"566", 566, "NG", "NGA", "Nigeria">>,
    niue |->
      <<"570", 570, "NU", "NIU", "Niue">>,
    norfolk_island |->
      <<"574", 574, "NF", "NFK", "Norfolk Island">>,
    norway |->
      <<"578", 578, "NO", "NOR", "Norway">>,
    oman |->
      <<"512", 512, "OM", "OMN", "Oman">>,
    pakistan |->
      <<"586", 586, "PK", "PAK", "Pakistan">>,
    palau |->
      <<"585", 585, "PW", "PLW", "Palau">>,
    panama |->
      <<"591", 591, "PA", "PAN", "Panama">>,
    papua_new_guinea |->
      <<"598", 598, "PG", "PNG", "Papua New Guinea">>,
    paraguay |->
      <<"600", 600, "PY", "PRY", "Paraguay">>,
    peru |->
      <<"604", 604, "PE", "PER", "Peru">>,
    pitcairn |->
      <<"612", 612, "PN", "PCN", "Pitcairn">>,
    poland |->
      <<"616", 616, "PL", "POL", "Poland">>,
    portugal |->
      <<"620", 620, "PT", "PRT", "Portugal">>,
    puerto_rico |->
      <<"630", 630, "PR", "PRI", "Puerto Rico">>,
    qatar |->
      <<"634", 634, "QA", "QAT", "Qatar">>,
    republic_of_north_macedonia |->
      <<"807", 807, "MK", "MKD", "Republic Of North Macedonia", "MacedoniaTable", "Macedonia">>,
    reunion |->
      <<"638", 638, "RE", "REU", "Reunion">>,
    romania |->
      <<"642", 642, "RO", "ROU", "Romania">>,
    rwanda |->
      <<"646", 646, "RW", "RWA", "Rwanda">>,
    saint_barthelemy |->
      <<"652", 652, "BL", "BLM", "Saint Barthelemy", "StBarthelemyTable", "StBarthelemy">>,
    saint_kitts_and_nevis |->
      <<"659", 659, "KN", "KNA", "Saint Kitts And Nevis", "StKittsTable", "StKitts">>,
    saint_lucia |->
      <<"662", 662, "LC", "LCA", "Saint Lucia", "StLuciaTable", "StLucia">>,
    saint_pierre_and_miquelon |->
      <<"666", 666, "PM", "SPM", "Saint Pierre And Miquelon", "StPierreTable", "StPierre", "SaintPierre">>,
    saint_vincent_and_the_grenadines |->
      <<"670", 670, "VC", "VCT", "Saint Vincent And The Grenadines", "StVincentTable", "StVincent", "SaintVincent">>,
    samoa |->
      <<"882", 882, "WS", "WSM", "Samoa">>,
    san_marino |->
      <<"674", 674, "SM", "SMR", "San Marino">>,
    sao_tome_and_principe |->
      <<"678", 678, "ST", "STP", "Sao Tome And Principe", "SaoTomeTable", "SaoTome">>,
    saudi_arabia |->
      <<"682", 682, "SA", "SAU", "Saudi Arabia">>,
    senegal |->
      <<"686", 686, "SN", "SEN", "Senegal">>,
    serbia |->
      <<"688", 688, "RS", "SRB", "Serbia">>,
    seychelles |->
      <<"690", 690, "SC", "SYC", "Seychelles">>,
    sierra_leone |->
      <<"694", 694, "SL", "SLE", "Sierra Leone">>,
    singapore |->
      <<"702", 702, "SG", "SGP", "Singapore">>,
    slovakia |->
      <<"703", 703, "SK", "SVK", "Slovakia">>,
    slovenia |->
      <<"705", 705, "SI", "SVN", "Slovenia">>,
    solomon_islands |->
      <<"090", 90, "SB", "SLB", "Solomon Islands">>,
    somalia |->
      <<"706", 706, "SO", "SOM", "Somalia">>,
    south_africa |->
      <<"710", 710, "ZA", "ZAF", "South Africa">>,
    south_georgia_and_the_south_sandwich_islands |->
      <<"239", 239, "GS", "SGS", "South Georgia And The South Sandwich Islands", "SouthGeorgiaTable", "SouthGeorgia", "SouthSandwichIslands">>,
    south_sudan |->
      <<"728", 728, "SS", "SSD", "South Sudan">>,
    spain |->
      <<"724", 724, "ES", "ESP", "Spain">>,
    sri_lanka |->
      <<"144", 144, "LK", "LKA", "Sri Lanka">>,
    state_of_palestine |->
      <<"275", 275, "PS", "PSE", "State Of Palestine", "PalestineTable", "Palestine">>,
    suriname |->
      <<"740", 740, "SR", "SUR", "Suriname">>,
    svalbard_and_jan_mayen |->
      <<"744", 744, "SJ", "SJM", "Svalbard And Jan Mayen">>,
    sweden |->
      <<"752", 752, "SE", "SWE", "Sweden">>,
    switzerland |->
      <<"756", 756, "CH", "CHE", "Switzerland">>,
    syrian_arab_republic |->
      <<"760", 760, "SY", "SYR", "Syrian Arab Republic">>,
    taiwan |->
      <<"158", 158, "TW", "TWN", "Taiwan, Republic Of China", "TaiwanTable", "Taiwan", "U+53F0U+7063", "Republic of China", "U+4E2DU+83EFU+6C11U+570B">>,
    tajikistan |->
      <<"762", 762, "TJ", "TJK", "Tajikistan">>,
    thailand |->
      <<"764", 764, "TH", "THA", "Thailand">>,
    the_bahamas |->
      <<"044", 44, "BS", "BHS", "The Bahamas", "BahamasTable", "Bahamas">>,
    the_cayman_islands |->
      <<"136", 136, "KY", "CYM", "The Cayman Islands", "CaymanIslandsTable", "CaymanIslands">>,
    the_central_african_republic |->
      <<"140", 140, "CF", "CAF", "The Central African Republic", "CentralAfricanRepublicTable", "CentralAfricanRepublic">>,
    the_cocos_keeling_islands |->
      <<"166", 166, "CC", "CCK", "The Cocos Keeling Islands", "CocosIslandsTable", "CocosIslands", "KeelingIslands">>,
    the_comoros |->
      <<"174", 174, "KM", "COM", "The Comoros", "ComorosTable", "Comoros">>,
    the_congo |->
      <<"178", 178, "CG", "COG", "The Congo", "CongoTable", "Congo">>,
    the_cook_islands |->
      <<"184", 184, "CK", "COK", "The Cook Islands", "CookIslandsTable", "CookIslands">>,
    the_democratic_peoples_republic_of_korea |->
      <<"408", 408, "KP", "PRK", "The Democratic Peoples Republic Of Korea", "NorthKoreaTable", "NorthKorea", "DemocraticPeoplesRepublicOfKorea">>,
    the_democratic_republic_of_the_congo |->
      <<"180", 180, "CD", "COD", "The Democratic Republic Of The Congo", "DemocraticRepublicOfTheCongoTable", "DemocraticRepublicOfTheCongo">>,
    the_dominican_republic |->
      <<"214", 214, "DO", "DOM", "The Dominican Republic", "DominicanRepublicTable", "DominicanRepublic">>,
    the_falkland_islands_malvinas |->
      <<"238", 238, "FK", "FLK", "The Falkland Islands Malvinas", "MalvinasTable", "Malvinas", "FalklandIslands">>,
    the_faroe_islands |->
      <<"234", 234, "FO", "FRO", "The Faroe Islands", "FaroeIslandsTable", "FaroeIslands">>,
    the_french_southern_territories |->
      <<"260", 260, "TF", "ATF", "The French Southern Territories", "FrenchSouthernTerritoriesTable", "FrenchSouthernTerritories">>,
    the_gambia |->
      <<"270", 270, "GM", "GMB", "The Gambia", "GambiaTable", "Gabmia">>,
    the_holy_see |->
      <<"336", 336, "VA", "VAT", "The Holy See", "HolySeeTable", "HolySee">>,
    the_lao_peoples_democratic_republic |->
      <<"418", 418, "LA", "LAO", "The Lao Peoples Democratic Republic", "LaoPeoplesDemocraticRepublicTable", "LaoPeoplesDemocraticRepublic">>,
    the_marshall_islands |->
      <<"584", 584, "MH", "MHL", "The Marshall Islands", "MarshallIslandsTable", "MarshallIslands">>,
    the_netherlands |->
      <<"528", 528, "NL", "NLD", "The Netherlands", "NetherlandsTable", "Netherlands", "Holland">>,
    the_niger |->
      <<"562", 562, "NE", "NER", "The Niger", "NigerTable", "Niger">>,
    the_northern_mariana_islands |->
      <<"580", 580, "MP", "MNP", "The Northern Mariana Islands", "NorthernMarianaIslandsTable", "NorthernMarianaIslands">>,
    the_philippines |->
      <<"608", 608, "PH", "PHL", "The Philippines", "PhilippinesTable", "Philippines">>,
    the_republic_of_korea |->
      <<"410", 410, "KR", "KOR", "The Republic Of Korea", "SouthKoreaTable", "SouthKorea", "RepublicOfKorea">>,
    the_republic_of_moldova |->
      <<"498", 498, "MD", "MDA", "The Republic Of Moldova", "MoldovaTable", "Moldova", "RepublicOfMoldova">>,
    the_russian_federation |->
      <<"643", 643, "RU", "RUS", "The Russian Federation", "RussiaTable", "Russia", "RussianFederation">>,
    the_sudan |->
      <<"729", 729, "SD", "SDN", "The Sudan", "SudanTable", "Sudan">>,
    the_turks_and_caicos_islands |->
      <<"796", 796, "TC", "TCA", "The Turks And Caicos Islands", "TurksAndCaicosIslandsTable", "TurksAndCaicosIslands">>,
    the_united_arab_emirates |->
      <<"784", 784, "AE", "ARE", "The United Arab Emirates", "UnitedArabEmiratesTable", "UnitedArabEmirates">>,
    the_united_kingdom_of_great_britain_and_northern_ireland |->
      <<"826", 826, "GB", "GBR", "The United Kingdom Of Great Britain And Northern Ireland", "EnglandTable", "England", "Scotland", "GreatBritain", "UnitedKingdom", "NorthernIreland", "UnitedKingdomOfGreatBritain", "UnitedKingdomOfGreatBritainAndNorthernIreland">>,
    the_united_states_minor_outlying_islands |->
      <<"581", 581, "UM", "UMI", "The United States Minor Outlying Islands", "UnitedStatesMinorOutlyingIslandsTable", "UnitedStatesMinorOutlyingIslands">>,
    the_united_states_of_america |->
      <<"840", 840, "US", "USA", "The United States Of America", "AmericaTable", "America", "UnitedStates", "UnitedStatesOfAmerica">>,
    timor_leste |->
      <<"626", 626, "TL", "TLS", "Timor Leste", "TimorTable", "EastTimor">>,
    togo |->
      <<"768", 768, "TG", "TGO", "Togo">>,
    tokelau |->
      <<"772", 772, "TK", "TKL", "Tokelau">>,
    tonga |->
      <<"776", 776, "TO", "TON", "Tonga">>,
    trinidad_and_tobago |->
      <<"780", 780, "TT", "TTO", "Trinidad And Tobago", "TrinidadTable", "Trinidad", "Tobago">>,
    tunisia |->
      <<"788", 788, "TN", "TUN", "Tunisia">>,
    turkey |->
      <<"792", 792, "TR", "TUR", "Türkiye", "TurkeyTable", "Turkey">>,
    turkmenistan |->
      <<"795", 795, "TM", "TKM", "Turkmenistan">>,
    tuvalu |->
      <<"798", 798, "TV", "TUV", "Tuvalu">>,
    us_virgin_islands |->
      <<"850", 850, "VI", "VIR", "US Virgin Islands">>,
    uganda |->
      <<"800", 800, "UG", "UGA", "Uganda">>,
    ukraine |->
      <<"804", 804, "UA", "UKR", "Ukraine">>,
    united_republic_of_tanzania |->
      <<"834", 834, "TZ", "TZA", "United Republic Of Tanzania", "TanzaniaTable", "Tanzania">>,
    uruguay |->
      <<"858", 858, "UY", "URY", "Uruguay">>,
    uzbekistan |->
      <<"860", 860, "UZ", "UZB", "Uzbekistan">>,
    vanuatu |->
      <<"548", 548, "VU", "VUT", "Vanuatu">>,
    vietnam |->
      <<"704", 704, "VN", "VNM", "Vietnam">>,
    wallis_and_futuna |->
      <<"876", 876, "WF", "WLF", "Wallis And Futuna">>,
    western_sahara |->
      <<"732", 732, "EH", "ESH", "Western Sahara">>,
    yemen |->
      <<"887", 887, "YE", "YEM", "Yemen">>,
    zambia |->
      <<"894", 894, "ZM", "ZMB", "Zambia">>,
    zimbabwe |->
      <<"716", 716, "ZW", "ZWE", "Zimbabwe">> ]

\* Mutant of country: alpha2 is stored in lower case.
country_lower_alpha2(decl) ==
  [code |-> decl[1], value |-> decl[2], alpha2 |-> to_lowercase(decl[3]),
   alpha3 |-> decl[4], long_name |-> decl[5],
   aliases |-> IF Len(decl) = 5 THEN into_country_table(EMPTY_LOOKUP_TABLE)
               ELSE into_country_table(Tables[decl[6]])]

\* Mutant of country: alpha2 is the first two letters of alpha3.
country_alpha2_of_alpha3(decl) ==
  [code |-> decl[1], value |-> decl[2], alpha2 |-> SubSeq(decl[4], 1, 2),
   alpha3 |-> decl[4], long_name |-> decl[5],
   aliases |-> IF Len(decl) = 5 THEN into_country_table(EMPTY_LOOKUP_TABLE)
               ELSE into_country_table(Tables[decl[6]])]

\* macro country!: the arm without aliases takes EMPTY_LOOKUP_TABLE, the arm
\* with aliases takes $table::const_default() and drops the alias literals.
country(decl) ==
  [code |-> decl[1], value |-> decl[2], alpha2 |-> decl[3], alpha3 |-> decl[4],
   long_name |-> decl[5],
   aliases |-> IF Len(decl) = 5 THEN into_country_table(EMPTY_LOOKUP_TABLE)
               ELSE into_country_table(Tables[decl[6]])]

\* The constructors of `impl Country`: Country.afghanistan is Country::afghanistan().
Country == [func \in DOMAIN Declarations |-> country(Declarations[func])]

\* Country::func()
call(func) == Country[func]

\* phf_map! { k => Country::func(), ... }: keys are distinct (a duplicate key
\* does not compile); an entry is written <<k, "func">>.
phf_map(entries) ==
  [k \in {e[1] : e \in Range(entries)} |->
     call((CHOOSE e \in Range(entries) : e[1] = k)[2])]

(* lib.rs: Country::get_countries, the array literal in its written order.        *)
get_countries ==
  LET array ==
        << "afghanistan",
           "aland_islands",
           "albania",
           "algeria",
           "american_samoa",
           "andorra",
           "angola",
           "anguilla",
           "antarctica",
           "antigua_and_barbuda",
           "argentina",
           "armenia",
           "aruba",
           "ascension_and_tristan_da_cunha_saint_helena",
           "australia",
           "austria",
           "azerbaijan",
           "bahrain",
           "bangladesh",
           "barbados",
           "belarus",
           "belgium",
           "belize",
           "benin",
           "bermuda",
           "bhutan",
           "bolivarian_republic_of_venezuela",
           "bolivia",
           "bonaire",
           "bosnia_and_herzegovina",
           "botswana",
           "bouvet_island",
           "brazil",
           "british_indian_ocean_territory",
           "british_virgin_islands",
           "brunei_darussalam",
           "bulgaria",
           "burkina_faso",
           "burundi",
           "cabo_verde",
           "cambodia",
           "cameroon",
           "canada",
           "chad",
           "chile",
           "china",
           "christmas_island",
           "colombia",
           "costa_rica",
           "coted_ivoire",
           "croatia",
           "cuba",
           "curacao",
           "cyprus",
           "czechia",
           "denmark",
           "djibouti",
           "dominica",
           "dutch_part_sint_maarten",
           "ecuador",
           "egypt",
           "el_salvador",
           "equatorial_guinea",
           "eritrea",
           "estonia",
           "eswatini",
           "ethiopia",
           "federated_states_of_micronesia",
           "fiji",
           "finland",
           "france",
           "french_guiana",
           "french_part_saint_martin",
           "french_polynesia",
           "gabon",
           "georgia",
           "germany",
           "ghana",
           "gibraltar",
           "greece",
           "greenland",
           "grenada",
           "guadeloupe",
           "guam",
           "guatemala",
           "guernsey",
           "guinea",
           "guinea_bissau",
           "guyana",
           "haiti",
           "heard_island_and_mc_donald_islands",
           "honduras",
           "hong_kong",
           "hungary",
           "iceland",
           "india",
           "indonesia",
           "iraq",
           "ireland",
           "islamic_republic_of_iran",
           "isle_of_man",
           "israel",
           "italy",
           "jamaica",
           "japan",
           "jersey",
           "jordan",
           "kazakhstan",
           "kenya",
           "kiribati",
           "kosovo",
           "kuwait",
           "kyrgyzstan",
           "latvia",
           "lebanon",
           "lesotho",
           "liberia",
           "libya",
           "liechtenstein",
           "lithuania",
           "luxembourg",
           "macao",
           "madagascar",
           "malawi",
           "malaysia",
           "maldives",
           "mali",
           "malta",
           "martinique",
           "mauritania",
           "mauritius",
           "mayotte",
           "mexico",
           "monaco",
           "mongolia",
           "montenegro",
           "montserrat",
           "morocco",
           "mozambique",
           "myanmar",
           "namibia",
           "nauru",
           "nepal",
           "new_caledonia",
           "new_zealand",
           "nicaragua",
           "nigeria",
           "niue",
           "norfolk_island",
           "norway",
           "oman",
           "pakistan",
           "palau",
           "panama",
           "papua_new_guinea",
           "paraguay",
           "peru",
           "pitcairn",
           "poland",
           "portugal",
           "puerto_rico",
           "qatar",
           "republic_of_north_macedonia",
           "reunion",
           "romania",
           "rwanda",
           "saint_barthelemy",
           "saint_kitts_and_nevis",
           "saint_lucia",
           "saint_pierre_and_miquelon",
           "saint_vincent_and_the_grenadines",
           "samoa",
           "san_marino",
           "sao_tome_and_principe",
           "saudi_arabia",
           "senegal",
           "serbia",
           "seychelles",
           "sierra_leone",
           "singapore",
           "slovakia",
           "slovenia",
           "solomon_islands",
           "somalia",
           "south_africa",
           "south_georgia_and_the_south_sandwich_islands",
           "south_sudan",
           "spain",
           "sri_lanka",
           "state_of_palestine",
           "suriname",
           "svalbard_and_jan_mayen",
           "sweden",
           "switzerland",
           "syrian_arab_republic",
           "taiwan",
           "tajikistan",
           "thailand",
           "the_bahamas",
           "the_cayman_islands",
           "the_central_african_republic",
           "the_cocos_keeling_islands",
           "the_comoros",
           "the_congo",
           "the_cook_islands",
           "the_democratic_peoples_republic_of_korea",
           "the_democratic_republic_of_the_congo",
           "the_dominican_republic",
           "the_falkland_islands_malvinas",
           "the_faroe_islands",
           "the_french_southern_territories",
           "the_gambia",
           "the_holy_see",
           "the_lao_peoples_democratic_republic",
           "the_marshall_islands",
           "the_netherlands",
           "the_niger",
           "the_northern_mariana_islands",
           "the_philippines",
           "the_republic_of_korea",
           "the_republic_of_moldova",
           "the_russian_federation",
           "the_sudan",
           "the_turks_and_caicos_islands",
           "the_united_arab_emirates",
           "the_united_kingdom_of_great_britain_and_northern_ireland",
           "the_united_states_minor_outlying_islands",
           "the_united_states_of_america",
           "timor_leste",
           "togo",
           "tokelau",
           "tonga",
           "trinidad_and_tobago",
           "tunisia",
           "turkey",
           "turkmenistan",
           "tuvalu",
           "us_virgin_islands",
           "uganda",
           "ukraine",
           "united_republic_of_tanzania",
           "uruguay",
           "uzbekistan",
           "vanuatu",
           "vietnam",
           "wallis_and_futuna",
           "western_sahara",
           "yemen",
           "zambia",
           "zimbabwe" >>
  IN  [i \in DOMAIN array |-> call(array[i])]

(***************************************************************************)
(* Traits of Country.                                                      *)
(***************************************************************************)
\* impl Display for Country
to_string(self) == replace(self.long_name, " ", "")

\* The characters of the crate's names in code point order, which is the
\* byte order of their UTF-8 encodings: U+00DC and U+00FC follow every
\* ASCII character.
CODE_POINT_ORDER ==
  " '(),-.0123456789ABCDEFGHIJKLMNOPQRSTUVWXYZ_abcdefghijklmnopqrstuvwxyzÜü"

code_point_rank ==
  [c \in {CharAt(CODE_POINT_ORDER, i) : i \in 1..Len(CODE_POINT_ORDER)} |->
     CHOOSE i \in 1..Len(CODE_POINT_ORDER) : CharAt(CODE_POINT_ORDER, i) = c]

\* str::cmp: lexicographic comparison of the bytes
RECURSIVE str_cmp(_, _)
str_cmp(a, b) ==
  IF a = "" /\ b = "" THEN "Equal"
  ELSE IF a = "" THEN "Less"
  ELSE IF b = "" THEN "Greater"
  ELSE LET x == code_point_rank[CharAt(a, 1)]
           y == code_point_rank[CharAt(b, 1)]
       IN  IF x < y THEN "Less"
           ELSE IF x > y THEN "Greater"
           ELSE str_cmp(SubSeq(a, 2, Len(a)), SubSeq(b, 2, Len(b)))

\* Mutant of cmp: only the first character of long_name is compared.
cmp_first_character(self, other) ==
  str_cmp(SubSeq(self.long_name, 1, 1), SubSeq(other.long_name, 1, 1))

\* impl Ord for Country
cmp(self, other) == str_cmp(self.long_name, other.long_name)

\* impl PartialOrd for Country
partial_cmp(self, other) == Some(cmp(self, other))

\* impl Hash for Country: the data fed to the hasher
hash(self) == <<self.long_name>>

\* Mutant of eq: only the alias tables are compared.
eq_aliases_only(self, other) ==
  /\ len(self.aliases) = len(other.aliases)
  /\ \A i \in (DOMAIN iter(self.aliases)) \cap (DOMAIN iter(other.aliases)) :
       iter(self.aliases)[i] = iter(other.aliases)[i]

\* impl PartialEq for Country
eq(self, other) ==
  LET one == self.code = other.code
      two == self.value = other.value
      thr == self.alpha2 = self.alpha2
      fur == self.alpha3 = self.alpha3
      fve == self.long_name = self.long_name
      six == len(self.aliases) = len(other.aliases)
      svn == \A i \in (DOMAIN iter(self.aliases)) \cap (DOMAIN iter(other.aliases)) :
               iter(self.aliases)[i] = iter(other.aliases)[i]
  IN  one /\ two /\ thr /\ fur /\ fve /\ six /\ svn

\* Mutant of serialize: the alpha-3 code is written instead of the alpha-2 code.
serialize_alpha3(self) == self.alpha3

\* impl Serialize for Country: the string handed to serialize_str
serialize(self) == self.alpha2

(***************************************************************************)
(* The static maps of the resolvers (lib.rs).                              *)
(***************************************************************************)
(* lib.rs: static VALUES of Country::from_value. *)
VALUES ==
  phf_map(<<
    <<4, "afghanistan">>,
    <<248, "aland_islands">>,
    <<8, "albania">>,
    <<12, "algeria">>,
    <<16, "american_samoa">>,
    <<20, "andorra">>,
    <<24, "angola">>,
    <<660, "anguilla">>,
    <<10, "antarctica">>,
    <<28, "antigua_and_barbuda">>,
    <<32, "argentina">>,
    <<51, "armenia">>,
    <<533, "aruba">>,
    <<654, "ascension_and_tristan_da_cunha_saint_helena">>,
    <<36, "australia">>,
    <<40, "austria">>,
    <<31, "azerbaijan">>,
    <<48, "bahrain">>,
    <<50, "bangladesh">>,
    <<52, "barbados">>,
    <<112, "belarus">>,
    <<56, "belgium">>,
    <<84, "belize">>,
    <<204, "benin">>,
    <<60, "bermuda">>,
    <<64, "bhutan">>,
    <<862, "bolivarian_republic_of_venezuela">>,
    <<68, "bolivia">>,
    <<535, "bonaire">>,
    <<70, "bosnia_and_herzegovina">>,
    <<72, "botswana">>,
    <<74, "bouvet_island">>,
    <<76, "brazil">>,
    <<86, "british_indian_ocean_territory">>,
    <<92, "british_virgin_islands">>,
    <<96, "brunei_darussalam">>,
    <<100, "bulgaria">>,
    <<854, "burkina_faso">>,
    <<108, "burundi">>,
    <<132, "cabo_verde">>,
    <<116, "cambodia">>,
    <<120, "cameroon">>,
    <<124, "canada">>,
    <<148, "chad">>,
    <<152, "chile">>,
    <<156, "china">>,
    <<162, "christmas_island">>,
    <<170, "colombia">>,
    <<188, "costa_rica">>,
    <<384, "coted_ivoire">>,
    <<191, "croatia">>,
    <<192, "cuba">>,
    <<531, "curacao">>,
    <<196, "cyprus">>,
    <<203, "czechia">>,
    <<208, "denmark">>,
    <<262, "djibouti">>,
    <<212, "dominica">>,
    <<534, "dutch_part_sint_maarten">>,
    <<218, "ecuador">>,
    <<818, "egypt">>,
    <<222, "el_salvador">>,
    <<226, "equatorial_guinea">>,
    <<232, "eritrea">>,
    <<233, "estonia">>,
    <<748, "eswatini">>,
    <<231, "ethiopia">>,
    <<583, "federated_states_of_micronesia">>,
    <<242, "fiji">>,
    <<246, "finland">>,
    <<250, "france">>,
    <<254, "french_guiana">>,
    <<663, "french_part_saint_martin">>,
    <<258, "french_polynesia">>,
    <<266, "gabon">>,
    <<268, "georgia">>,
    <<276, "germany">>,
    <<288, "ghana">>,
    <<292, "gibraltar">>,
    <<300, "greece">>,
    <<304, "greenland">>,
    <<308, "grenada">>,
    <<312, "guadeloupe">>,
    <<316, "guam">>,
    <<320, "guatemala">>,
    <<831, "guernsey">>,
    <<324, "guinea">>,
    <<624, "guinea_bissau">>,
    <<328, "guyana">>,
    <<332, "haiti">>,
    <<334, "heard_island_and_mc_donald_islands">>,
    <<340, "honduras">>,
    <<344, "hong_kong">>,
    <<348, "hungary">>,
    <<352, "iceland">>,
    <<356, "india">>,
    <<360, "indonesia">>,
    <<368, "iraq">>,
    <<372, "ireland">>,
    <<364, "islamic_republic_of_iran">>,
    <<833, "isle_of_man">>,
    <<376, "israel">>,
    <<380, "italy">>,
    <<388, "jamaica">>,
    <<392, "japan">>,
    <<832, "jersey">>,
    <<400, "jordan">>,
    <<398, "kazakhstan">>,
    <<404, "kenya">>,
    <<296, "kiribati">>,
    <<383, "kosovo">>,
    <<414, "kuwait">>,
    <<417, "kyrgyzstan">>,
    <<428, "latvia">>,
    <<422, "lebanon">>,
    <<426, "lesotho">>,
    <<430, "liberia">>,
    <<434, "libya">>,
    <<438, "liechtenstein">>,
    <<440, "lithuania">>,
    <<442, "luxembourg">>,
    <<446, "macao">>,
    <<450, "madagascar">>,
    <<454, "malawi">>,
    <<458, "malaysia">>,
    <<462, "maldives">>,
    <<466, "mali">>,
    <<470, "malta">>,
    <<474, "martinique">>,
    <<478, "mauritania">>,
    <<480, "mauritius">>,
    <<175, "mayotte">>,
    <<484, "mexico">>,
    <<492, "monaco">>,
    <<496, "mongolia">>,
    <<499, "montenegro">>,
    <<500, "montserrat">>,
    <<504, "morocco">>,
    <<508, "mozambique">>,
    <<104, "myanmar">>,
    <<516, "namibia">>,
    <<520, "nauru">>,
    <<524, "nepal">>,
    <<540, "new_caledonia">>,
    <<554, "new_zealand">>,
    <<558, "nicaragua">>,
    <<566, "nigeria">>,
    <<570, "niue">>,
    <<574, "norfolk_island">>,
    <<578, "norway">>,
    <<512, "oman">>,
    <<586, "pakistan">>,
    <<585, "palau">>,
    <<591, "panama">>,
    <<598, "papua_new_guinea">>,
    <<600, "paraguay">>,
    <<604, "peru">>,
    <<612, "pitcairn">>,
    <<616, "poland">>,
    <<620, "portugal">>,
    <<630, "puerto_rico">>,
    <<634, "qatar">>,
    <<807, "republic_of_north_macedonia">>,
    <<638, "reunion">>,
    <<642, "romania">>,
    <<646, "rwanda">>,
    <<652, "saint_barthelemy">>,
    <<659, "saint_kitts_and_nevis">>,
    <<662, "saint_lucia">>,
    <<666, "saint_pierre_and_miquelon">>,
    <<670, "saint_vincent_and_the_grenadines">>,
    <<882, "samoa">>,
    <<674, "san_marino">>,
    <<678, "sao_tome_and_principe">>,
    <<682, "saudi_arabia">>,
    <<686, "senegal">>,
    <<688, "serbia">>,
    <<690, "seychelles">>,
    <<694, "sierra_leone">>,
    <<702, "singapore">>,
    <<703, "slovakia">>,
    <<705, "slovenia">>,
    <<90, "solomon_islands">>,
    <<706, "somalia">>,
    <<710, "south_africa">>,
    <<239, "south_georgia_and_the_south_sandwich_islands">>,
    <<728, "south_sudan">>,
    <<724, "spain">>,
    <<144, "sri_lanka">>,
    <<275, "state_of_palestine">>,
    <<740, "suriname">>,
    <<744, "svalbard_and_jan_mayen">>,
    <<752, "sweden">>,
    <<756, "switzerland">>,
    <<760, "syrian_arab_republic">>,
    <<158, "taiwan">>,
    <<762, "tajikistan">>,
    <<764, "thailand">>,
    <<44, "the_bahamas">>,
    <<136, "the_cayman_islands">>,
    <<140, "the_central_african_republic">>,
    <<166, "the_cocos_keeling_islands">>,
    <<174, "the_comoros">>,
    <<178, "the_congo">>,
    <<184, "the_cook_islands">>,
    <<408, "the_democratic_peoples_republic_of_korea">>,
    <<180, "the_democratic_republic_of_the_congo">>,
    <<214, "the_dominican_republic">>,
    <<238, "the_falkland_islands_malvinas">>,
    <<234, "the_faroe_islands">>,
    <<260, "the_french_southern_territories">>,
    <<270, "the_gambia">>,
    <<336, "the_holy_see">>,
    <<418, "the_lao_peoples_democratic_republic">>,
    <<584, "the_marshall_islands">>,
    <<528, "the_netherlands">>,
    <<562, "the_niger">>,
    <<580, "the_northern_mariana_islands">>,
    <<608, "the_philippines">>,
    <<410, "the_republic_of_korea">>,
    <<498, "the_republic_of_moldova">>,
    <<643, "the_russian_federation">>,
    <<729, "the_sudan">>,
    <<796, "the_turks_and_caicos_islands">>,
    <<784, "the_united_arab_emirates">>,
    <<826, "the_united_kingdom_of_great_britain_and_northern_ireland">>,
    <<581, "the_united_states_minor_outlying_islands">>,
    <<840, "the_united_states_of_america">>,
    <<626, "timor_leste">>,
    <<768, "togo">>,
    <<772, "tokelau">>,
    <<776, "tonga">>,
    <<780, "trinidad_and_tobago">>,
    <<788, "tunisia">>,
    <<792, "turkey">>,
    <<795, "turkmenistan">>,
    <<798, "tuvalu">>,
    <<850, "us_virgin_islands">>,
    <<800, "uganda">>,
    <<804, "ukraine">>,
    <<834, "united_republic_of_tanzania">>,
    <<858, "uruguay">>,
    <<860, "uzbekistan">>,
    <<548, "vanuatu">>,
    <<704, "vietnam">>,
    <<876, "wallis_and_futuna">>,
    <<732, "western_sahara">>,
    <<887, "yemen">>,
    <<894, "zambia">>,
    <<716, "zimbabwe">>
  >>)

(* lib.rs: static CODES of Country::from_code. *)
CODES ==
  phf_map(<<
    <<"004", "afghanistan">>,
    <<"248", "aland_islands">>,
    <<"008", "albania">>,
    <<"012", "algeria">>,
    <<"016", "american_samoa">>,
    <<"020", "andorra">>,
    <<"024", "angola">>,
    <<"660", "anguilla">>,
    <<"010", "antarctica">>,
    <<"028", "antigua_and_barbuda">>,
    <<"032", "argentina">>,
    <<"051", "armenia">>,
    <<"533", "aruba">>,
    <<"654", "ascension_and_tristan_da_cunha_saint_helena">>,
    <<"036", "australia">>,
    <<"040", "austria">>,
    <<"031", "azerbaijan">>,
    <<"048", "bahrain">>,
    <<"050", "bangladesh">>,
    <<"052", "barbados">>,
    <<"112", "belarus">>,
    <<"056", "belgium">>,
    <<"084", "belize">>,
    <<"204", "benin">>,
    <<"060", "bermuda">>,
    <<"064", "bhutan">>,
    <<"862", "bolivarian_republic_of_venezuela">>,
    <<"068", "bolivia">>,
    <<"535", "bonaire">>,
    <<"070", "bosnia_and_herzegovina">>,
    <<"072", "botswana">>,
    <<"074", "bouvet_island">>,
    <<"076", "brazil">>,
    <<"086", "british_indian_ocean_territory">>,
    <<"092", "british_virgin_islands">>,
    <<"096", "brunei_darussalam">>,
    <<"100", "bulgaria">>,
    <<"854", "burkina_faso">>,
    <<"108", "burundi">>,
    <<"132", "cabo_verde">>,
    <<"116", "cambodia">>,
    <<"120", "cameroon">>,
    <<"124", "canada">>,
    <<"148", "chad">>,
    <<"152", "chile">>,
    <<"156", "china">>,
    <<"162", "christmas_island">>,
    <<"170", "colombia">>,
    <<"188", "costa_rica">>,
    <<"384", "coted_ivoire">>,
    <<"191", "croatia">>,
    <<"192", "cuba">>,
    <<"531", "curacao">>,
    <<"196", "cyprus">>,
    <<"203", "czechia">>,
    <<"208", "denmark">>,
    <<"262", "djibouti">>,
    <<"212", "dominica">>,
    <<"534", "dutch_part_sint_maarten">>,
    <<"218", "ecuador">>,
    <<"818", "egypt">>,
    <<"222", "el_salvador">>,
    <<"226", "equatorial_guinea">>,
    <<"232", "eritrea">>,
    <<"233", "estonia">>,
    <<"748", "eswatini">>,
    <<"231", "ethiopia">>,
    <<"583", "federated_states_of_micronesia">>,
    <<"242", "fiji">>,
    <<"246", "finland">>,
    <<"250", "france">>,
    <<"254", "french_guiana">>,
    <<"663", "french_part_saint_martin">>,
    <<"258", "french_polynesia">>,
    <<"266", "gabon">>,
    <<"268", "georgia">>,
    <<"276", "germany">>,
    <<"288", "ghana">>,
    <<"292", "gibraltar">>,
    <<"300", "greece">>,
    <<"304", "greenland">>,
    <<"308", "grenada">>,
    <<"312", "guadeloupe">>,
    <<"316", "guam">>,
    <<"320", "guatemala">>,
    <<"831", "guernsey">>,
    <<"324", "guinea">>,
    <<"624", "guinea_bissau">>,
    <<"328", "guyana">>,
    <<"332", "haiti">>,
    <<"334", "heard_island_and_mc_donald_islands">>,
    <<"340", "honduras">>,
    <<"344", "hong_kong">>,
    <<"348", "hungary">>,
    <<"352", "iceland">>,
    <<"356", "india">>,
    <<"360", "indonesia">>,
    <<"368", "iraq">>,
    <<"372", "ireland">>,
    <<"364", "islamic_republic_of_iran">>,
    <<"833", "isle_of_man">>,
    <<"376", "israel">>,
    <<"380", "italy">>,
    <<"388", "jamaica">>,
    <<"392", "japan">>,
    <<"832", "jersey">>,
    <<"400", "jordan">>,
    <<"398", "kazakhstan">>,
    <<"404", "kenya">>,
    <<"296", "kiribati">>,
    <<"383", "kosovo">>,
    <<"414", "kuwait">>,
    <<"417", "kyrgyzstan">>,
    <<"428", "latvia">>,
    <<"422", "lebanon">>,
    <<"426", "lesotho">>,
    <<"430", "liberia">>,
    <<"434", "libya">>,
    <<"438", "liechtenstein">>,
    <<"440", "lithuania">>,
    <<"442", "luxembourg">>,
    <<"446", "macao">>,
    <<"450", "madagascar">>,
    <<"454", "malawi">>,
    <<"458", "malaysia">>,
    <<"462", "maldives">>,
    <<"466", "mali">>,
    <<"470", "malta">>,
    <<"474", "martinique">>,
    <<"478", "mauritania">>,
    <<"480", "mauritius">>,
    <<"175", "mayotte">>,
    <<"484", "mexico">>,
    <<"492", "monaco">>,
    <<"496", "mongolia">>,
    <<"499", "montenegro">>,
    <<"500", "montserrat">>,
    <<"504", "morocco">>,
    <<"508", "mozambique">>,
    <<"104", "myanmar">>,
    <<"516", "namibia">>,
    <<"520", "nauru">>,
    <<"524", "nepal">>,
    <<"540", "new_caledonia">>,
    <<"554", "new_zealand">>,
    <<"558", "nicaragua">>,
    <<"566", "nigeria">>,
    <<"570", "niue">>,
    <<"574", "norfolk_island">>,
    <<"578", "norway">>,
    <<"512", "oman">>,
    <<"586", "pakistan">>,
    <<"585", "palau">>,
    <<"591", "panama">>,
    <<"598", "papua_new_guinea">>,
    <<"600", "paraguay">>,
    <<"604", "peru">>,
    <<"612", "pitcairn">>,
    <<"616", "poland">>,
    <<"620", "portugal">>,
    <<"630", "puerto_rico">>,
    <<"634", "qatar">>,
    <<"807", "republic_of_north_macedonia">>,
    <<"638", "reunion">>,
    <<"642", "romania">>,
    <<"646", "rwanda">>,
    <<"652", "saint_barthelemy">>,
    <<"659", "saint_kitts_and_nevis">>,
    <<"662", "saint_lucia">>,
    <<"666", "saint_pierre_and_miquelon">>,
    <<"670", "saint_vincent_and_the_grenadines">>,
    <<"882", "samoa">>,
    <<"674", "san_marino">>,
    <<"678", "sao_tome_and_principe">>,
    <<"682", "saudi_arabia">>,
    <<"686", "senegal">>,
    <<"688", "serbia">>,
    <<"690", "seychelles">>,
    <<"694", "sierra_leone">>,
    <<"702", "singapore">>,
    <<"703", "slovakia">>,
    <<"705", "slovenia">>,
    <<"090", "solomon_islands">>,
    <<"706", "somalia">>,
    <<"710", "south_africa">>,
    <<"239", "south_georgia_and_the_south_sandwich_islands">>,
    <<"728", "south_sudan">>,
    <<"724", "spain">>,
    <<"144", "sri_lanka">>,
    <<"275", "state_of_palestine">>,
    <<"740", "suriname">>,
    <<"744", "svalbard_and_jan_mayen">>,
    <<"752", "sweden">>,
    <<"756", "switzerland">>,
    <<"760", "syrian_arab_republic">>,
    <<"158", "taiwan">>,
    <<"762", "tajikistan">>,
    <<"764", "thailand">>,
    <<"044", "the_bahamas">>,
    <<"136", "the_cayman_islands">>,
    <<"140", "the_central_african_republic">>,
    <<"166", "the_cocos_keeling_islands">>,
    <<"174", "the_comoros">>,
    <<"178", "the_congo">>,
    <<"184", "the_cook_islands">>,
    <<"408", "the_democratic_peoples_republic_of_korea">>,
    <<"180", "the_democratic_republic_of_the_congo">>,
    <<"214", "the_dominican_republic">>,
    <<"238", "the_falkland_islands_malvinas">>,
    <<"234", "the_faroe_islands">>,
    <<"260", "the_french_southern_territories">>,
    <<"270", "the_gambia">>,
    <<"336", "the_holy_see">>,
    <<"418", "the_lao_peoples_democratic_republic">>,
    <<"584", "the_marshall_islands">>,
    <<"528", "the_netherlands">>,
    <<"562", "the_niger">>,
    <<"580", "the_northern_mariana_islands">>,
    <<"608", "the_philippines">>,
    <<"410", "the_republic_of_korea">>,
    <<"498", "the_republic_of_moldova">>,
    <<"643", "the_russian_federation">>,
    <<"729", "the_sudan">>,
    <<"796", "the_turks_and_caicos_islands">>,
    <<"784", "the_united_arab_emirates">>,
    <<"826", "the_united_kingdom_of_great_britain_and_northern_ireland">>,
    <<"581", "the_united_states_minor_outlying_islands">>,
    <<"840", "the_united_states_of_america">>,
    <<"626", "timor_leste">>,
    <<"768", "togo">>,
    <<"772", "tokelau">>,
    <<"776", "tonga">>,
    <<"780", "trinidad_and_tobago">>,
    <<"788", "tunisia">>,
    <<"792", "turkey">>,
    <<"795", "turkmenistan">>,
    <<"798", "tuvalu">>,
    <<"850", "us_virgin_islands">>,
    <<"800", "uganda">>,
    <<"804", "ukraine">>,
    <<"834", "united_republic_of_tanzania">>,
    <<"858", "uruguay">>,
    <<"860", "uzbekistan">>,
    <<"548", "vanuatu">>,
    <<"704", "vietnam">>,
    <<"876", "wallis_and_futuna">>,
    <<"732", "western_sahara">>,
    <<"887", "yemen">>,
    <<"894", "zambia">>,
    <<"716", "zimbabwe">>
  >>)

(* lib.rs: static ALPHA2 of Country::from_alpha2. *)
ALPHA2 ==
  phf_map(<<
    <<"af", "afghanistan">>,
    <<"ax", "aland_islands">>,
    <<"al", "albania">>,
    <<"dz", "algeria">>,
    <<"as", "american_samoa">>,
    <<"ad", "andorra">>,
    <<"ao", "angola">>,
    <<"ai", "anguilla">>,
    <<"aq", "antarctica">>,
    <<"ag", "antigua_and_barbuda">>,
    <<"ar", "argentina">>,
    <<"am", "armenia">>,
    <<"aw", "aruba">>,
    <<"sh", "ascension_and_tristan_da_cunha_saint_helena">>,
    <<"au", "australia">>,
    <<"at", "austria">>,
    <<"az", "azerbaijan">>,
    <<"bh", "bahrain">>,
    <<"bd", "bangladesh">>,
    <<"bb", "barbados">>,
    <<"by", "belarus">>,
    <<"be", "belgium">>,
    <<"bz", "belize">>,
    <<"bj", "benin">>,
    <<"bm", "bermuda">>,
    <<"bt", "bhutan">>,
    <<"ve", "bolivarian_republic_of_venezuela">>,
    <<"bo", "bolivia">>,
    <<"bq", "bonaire">>,
    <<"ba", "bosnia_and_herzegovina">>,
    <<"bw", "botswana">>,
    <<"bv", "bouvet_island">>,
    <<"br", "brazil">>,
    <<"io", "british_indian_ocean_territory">>,
    <<"vg", "british_virgin_islands">>,
    <<"bn", "brunei_darussalam">>,
    <<"bg", "bulgaria">>,
    <<"bf", "burkina_faso">>,
    <<"bi", "burundi">>,
    <<"cv", "cabo_verde">>,
    <<"kh", "cambodia">>,
    <<"cm", "cameroon">>,
    <<"ca", "canada">>,
    <<"td", "chad">>,
    <<"cl", "chile">>,
    <<"cn", "china">>,
    <<"cx", "christmas_island">>,
    <<"co", "colombia">>,
    <<"cr", "costa_rica">>,
    <<"ci", "coted_ivoire">>,
    <<"hr", "croatia">>,
    <<"cu", "cuba">>,
    <<"cw", "curacao">>,
    <<"cy", "cyprus">>,
    <<"cz", "czechia">>,
    <<"dk", "denmark">>,
    <<"dj", "djibouti">>,
    <<"dm", "dominica">>,
    <<"sx", "dutch_part_sint_maarten">>,
    <<"ec", "ecuador">>,
    <<"eg", "egypt">>,
    <<"sv", "el_salvador">>,
    <<"gq", "equatorial_guinea">>,
    <<"er", "eritrea">>,
    <<"ee", "estonia">>,
    <<"sz", "eswatini">>,
    <<"et", "ethiopia">>,
    <<"fm", "federated_states_of_micronesia">>,
    <<"fj", "fiji">>,
    <<"fi", "finland">>,
    <<"fr", "france">>,
    <<"gf", "french_guiana">>,
    <<"mf", "french_part_saint_martin">>,
    <<"pf", "french_polynesia">>,
    <<"ga", "gabon">>,
    <<"ge", "georgia">>,
    <<"de", "germany">>,
    <<"gh", "ghana">>,
    <<"gi", "gibraltar">>,
    <<"gr", "greece">>,
    <<"gl", "greenland">>,
    <<"gd", "grenada">>,
    <<"gp", "guadeloupe">>,
    <<"gu", "guam">>,
    <<"gt", "guatemala">>,
    <<"gg", "guernsey">>,
    <<"gn", "guinea">>,
    <<"gw", "guinea_bissau">>,
    <<"gy", "guyana">>,
    <<"ht", "haiti">>,
    <<"hm", "heard_island_and_mc_donald_islands">>,
    <<"hn", "honduras">>,
    <<"hk", "hong_kong">>,
    <<"hu", "hungary">>,
    <<"is", "iceland">>,
    <<"in", "india">>,
    <<"id", "indonesia">>,
    <<"iq", "iraq">>,
    <<"ie", "ireland">>,
    <<"ir", "islamic_republic_of_iran">>,
    <<"im", "isle_of_man">>,
    <<"il", "israel">>,
    <<"it", "italy">>,
    <<"jm", "jamaica">>,
    <<"jp", "japan">>,
    <<"je", "jersey">>,
    <<"jo", "jordan">>,
    <<"kz", "kazakhstan">>,
    <<"ke", "kenya">>,
    <<"ki", "kiribati">>,
    <<"xk", "kosovo">>,
    <<"kw", "kuwait">>,
    <<"kg", "kyrgyzstan">>,
    <<"lv", "latvia">>,
    <<"lb", "lebanon">>,
    <<"ls", "lesotho">>,
    <<"lr", "liberia">>,
    <<"ly", "libya">>,
    <<"li", "liechtenstein">>,
    <<"lt", "lithuania">>,
    <<"lu", "luxembourg">>,
    <<"mo", "macao">>,
    <<"mg", "madagascar">>,
    <<"mw", "malawi">>,
    <<"my", "malaysia">>,
    <<"mv", "maldives">>,
    <<"ml", "mali">>,
    <<"mt", "malta">>,
    <<"mq", "martinique">>,
    <<"mr", "mauritania">>,
    <<"mu", "mauritius">>,
    <<"yt", "mayotte">>,
    <<"mx", "mexico">>,
    <<"mc", "monaco">>,
    <<"mn", "mongolia">>,
    <<"me", "montenegro">>,
    <<"ms", "montserrat">>,
    <<"ma", "morocco">>,
    <<"mz", "mozambique">>,
    <<"mm", "myanmar">>,
    <<"na", "namibia">>,
    <<"nr", "nauru">>,
    <<"np", "nepal">>,
    <<"nc", "new_caledonia">>,
    <<"nz", "new_zealand">>,
    <<"ni", "nicaragua">>,
    <<"ng", "nigeria">>,
    <<"nu", "niue">>,
    <<"nf", "norfolk_island">>,
    <<"no", "norway">>,
    <<"om", "oman">>,
    <<"pk", "pakistan">>,
    <<"pw", "palau">>,
    <<"pa", "panama">>,
    <<"pg", "papua_new_guinea">>,
    <<"py", "paraguay">>,
    <<"pe", "peru">>,
    <<"pn", "pitcairn">>,
    <<"pl", "poland">>,
    <<"pt", "portugal">>,
    <<"pr", "puerto_rico">>,
    <<"qa", "qatar">>,
    <<"mk", "republic_of_north_macedonia">>,
    <<"re", "reunion">>,
    <<"ro", "romania">>,
    <<"rw", "rwanda">>,
    <<"bl", "saint_barthelemy">>,
    <<"kn", "saint_kitts_and_nevis">>,
    <<"lc", "saint_lucia">>,
    <<"pm", "saint_pierre_and_miquelon">>,
    <<"vc", "saint_vincent_and_the_grenadines">>,
    <<"ws", "samoa">>,
    <<"sm", "san_marino">>,
    <<"st", "sao_tome_and_principe">>,
    <<"sa", "saudi_arabia">>,
    <<"sn", "senegal">>,
    <<"rs", "serbia">>,
    <<"sc", "seychelles">>,
    <<"sl", "sierra_leone">>,
    <<"sg", "singapore">>,
    <<"sk", "slovakia">>,
    <<"si", "slovenia">>,
    <<"sb", "solomon_islands">>,
    <<"so", "somalia">>,
    <<"za", "south_africa">>,
    <<"gs", "south_georgia_and_the_south_sandwich_islands">>,
    <<"ss", "south_sudan">>,
    <<"es", "spain">>,
    <<"lk", "sri_lanka">>,
    <<"ps", "state_of_palestine">>,
    <<"sr", "suriname">>,
    <<"sj", "svalbard_and_jan_mayen">>,
    <<"se", "sweden">>,
    <<"ch", "switzerland">>,
    <<"sy", "syrian_arab_republic">>,
    <<"tw", "taiwan">>,
    <<"tj", "tajikistan">>,
    <<"th", "thailand">>,
    <<"bs", "the_bahamas">>,
    <<"ky", "the_cayman_islands">>,
    <<"cf", "the_central_african_republic">>,
    <<"cc", "the_cocos_keeling_islands">>,
    <<"km", "the_comoros">>,
    <<"cg", "the_congo">>,
    <<"ck", "the_cook_islands">>,
    <<"kp", "the_democratic_peoples_republic_of_korea">>,
    <<"cd", "the_democratic_republic_of_the_congo">>,
    <<"do", "the_dominican_republic">>,
    <<"fk", "the_falkland_islands_malvinas">>,
    <<"fo", "the_faroe_islands">>,
    <<"tf", "the_french_southern_territories">>,
    <<"gm", "the_gambia">>,
    <<"va", "the_holy_see">>,
    <<"la", "the_lao_peoples_democratic_republic">>,
    <<"mh", "the_marshall_islands">>,
    <<"nl", "the_netherlands">>,
    <<"ne", "the_niger">>,
    <<"mp", "the_northern_mariana_islands">>,
    <<"ph", "the_philippines">>,
    <<"kr", "the_republic_of_korea">>,
    <<"md", "the_republic_of_moldova">>,
    <<"ru", "the_russian_federation">>,
    <<"sd", "the_sudan">>,
    <<"tc", "the_turks_and_caicos_islands">>,
    <<"ae", "the_united_arab_emirates">>,
    <<"gb", "the_united_kingdom_of_great_britain_and_northern_ireland">>,
    <<"um", "the_united_states_minor_outlying_islands">>,
    <<"us", "the_united_states_of_america">>,
    <<"tl", "timor_leste">>,
    <<"tg", "togo">>,
    <<"tk", "tokelau">>,
    <<"to", "tonga">>,
    <<"tt", "trinidad_and_tobago">>,
    <<"tn", "tunisia">>,
    <<"tr", "turkey">>,
    <<"tm", "turkmenistan">>,
    <<"tv", "tuvalu">>,
    <<"vi", "us_virgin_islands">>,
    <<"ug", "uganda">>,
    <<"ua", "ukraine">>,
    <<"tz", "united_republic_of_tanzania">>,
    <<"uy", "uruguay">>,
    <<"uz", "uzbekistan">>,
    <<"vu", "vanuatu">>,
    <<"vn", "vietnam">>,
    <<"wf", "wallis_and_futuna">>,
    <<"eh", "western_sahara">>,
    <<"ye", "yemen">>,
    <<"zm", "zambia">>,
    <<"zw", "zimbabwe">>
  >>)

(* lib.rs: static ALPHA3 of Country::from_alpha3. *)
ALPHA3 ==
  phf_map(<<
    <<"afg", "afghanistan">>,
    <<"ala", "aland_islands">>,
    <<"alb", "albania">>,
    <<"dza", "algeria">>,
    <<"asm", "american_samoa">>,
    <<"and", "andorra">>,
    <<"ago", "angola">>,
    <<"aia", "anguilla">>,
    <<"ata", "antarctica">>,
    <<"atg", "antigua_and_barbuda">>,
    <<"arg", "argentina">>,
    <<"arm", "armenia">>,
    <<"abw", "aruba">>,
    <<"shn", "ascension_and_tristan_da_cunha_saint_helena">>,
    <<"aus", "australia">>,
    <<"aut", "austria">>,
    <<"aze", "azerbaijan">>,
    <<"bhr", "bahrain">>,
    <<"bgd", "bangladesh">>,
    <<"brb", "barbados">>,
    <<"blr", "belarus">>,
    <<"bel", "belgium">>,
    <<"blz", "belize">>,
    <<"ben", "benin">>,
    <<"bmu", "bermuda">>,
    <<"btn", "bhutan">>,
    <<"ven", "bolivarian_republic_of_venezuela">>,
    <<"bol", "bolivia">>,
    <<"bes", "bonaire">>,
    <<"bih", "bosnia_and_herzegovina">>,
    <<"bwa", "botswana">>,
    <<"bvt", "bouvet_island">>,
    <<"bra", "brazil">>,
    <<"iot", "british_indian_ocean_territory">>,
    <<"vgb", "british_virgin_islands">>,
    <<"brn", "brunei_darussalam">>,
    <<"bgr", "bulgaria">>,
    <<"bfa", "burkina_faso">>,
    <<"bdi", "burundi">>,
    <<"cpv", "cabo_verde">>,
    <<"khm", "cambodia">>,
    <<"cmr", "cameroon">>,
    <<"can", "canada">>,
    <<"tcd", "chad">>,
    <<"chl", "chile">>,
    <<"chn", "china">>,
    <<"cxr", "christmas_island">>,
    <<"col", "colombia">>,
    <<"cri", "costa_rica">>,
    <<"civ", "coted_ivoire">>,
    <<"hrv", "croatia">>,
    <<"cub", "cuba">>,
    <<"cuw", "curacao">>,
    <<"cyp", "cyprus">>,
    <<"cze", "czechia">>,
    <<"dnk", "denmark">>,
    <<"dji", "djibouti">>,
    <<"dma", "dominica">>,
    <<"sxm", "dutch_part_sint_maarten">>,
    <<"ecu", "ecuador">>,
    <<"egy", "egypt">>,
    <<"slv", "el_salvador">>,
    <<"gnq", "equatorial_guinea">>,
    <<"eri", "eritrea">>,
    <<"est", "estonia">>,
    <<"swz", "eswatini">>,
    <<"eth", "ethiopia">>,
    <<"fsm", "federated_states_of_micronesia">>,
    <<"fji", "fiji">>,
    <<"fin", "finland">>,
    <<"fra", "france">>,
    <<"guf", "french_guiana">>,
    <<"maf", "french_part_saint_martin">>,
    <<"pyf", "french_polynesia">>,
    <<"gab", "gabon">>,
    <<"geo", "georgia">>,
    <<"deu", "germany">>,
    <<"gha", "ghana">>,
    <<"gib", "gibraltar">>,
    <<"grc", "greece">>,
    <<"grl", "greenland">>,
    <<"grd", "grenada">>,
    <<"glp", "guadeloupe">>,
    <<"gum", "guam">>,
    <<"gtm", "guatemala">>,
    <<"ggy", "guernsey">>,
    <<"gin", "guinea">>,
    <<"gnb", "guinea_bissau">>,
    <<"guy", "guyana">>,
    <<"hti", "haiti">>,
    <<"hmd", "heard_island_and_mc_donald_islands">>,
    <<"hnd", "honduras">>,
    <<"hkg", "hong_kong">>,
    <<"hun", "hungary">>,
    <<"isl", "iceland">>,
    <<"ind", "india">>,
    <<"idn", "indonesia">>,
    <<"irq", "iraq">>,
    <<"irl", "ireland">>,
    <<"irn", "islamic_republic_of_iran">>,
    <<"imn", "isle_of_man">>,
    <<"isr", "israel">>,
    <<"ita", "italy">>,
    <<"jam", "jamaica">>,
    <<"jpn", "japan">>,
    <<"jey", "jersey">>,
    <<"jor", "jordan">>,
    <<"kaz", "kazakhstan">>,
    <<"ken", "kenya">>,
    <<"xkx", "kosovo">>,
    <<"kir", "kiribati">>,
    <<"kwt", "kuwait">>,
    <<"kgz", "kyrgyzstan">>,
    <<"lva", "latvia">>,
    <<"lbn", "lebanon">>,
    <<"lso", "lesotho">>,
    <<"lbr", "liberia">>,
    <<"lby", "libya">>,
    <<"lie", "liechtenstein">>,
    <<"ltu", "lithuania">>,
    <<"lux", "luxembourg">>,
    <<"mac", "macao">>,
    <<"mdg", "madagascar">>,
    <<"mwi", "malawi">>,
    <<"mys", "malaysia">>,
    <<"mdv", "maldives">>,
    <<"mli", "mali">>,
    <<"mlt", "malta">>,
    <<"mtq", "martinique">>,
    <<"mrt", "mauritania">>,
    <<"mus", "mauritius">>,
    <<"myt", "mayotte">>,
    <<"mex", "mexico">>,
    <<"mco", "monaco">>,
    <<"mng", "mongolia">>,
    <<"mne", "montenegro">>,
    <<"msr", "montserrat">>,
    <<"mar", "morocco">>,
    <<"moz", "mozambique">>,
    <<"mmr", "myanmar">>,
    <<"nam", "namibia">>,
    <<"nru", "nauru">>,
    <<"npl", "nepal">>,
    <<"ncl", "new_caledonia">>,
    <<"nzl", "new_zealand">>,
    <<"nic", "nicaragua">>,
    <<"nga", "nigeria">>,
    <<"niu", "niue">>,
    <<"nfk", "norfolk_island">>,
    <<"nor", "norway">>,
    <<"omn", "oman">>,
    <<"pak", "pakistan">>,
    <<"plw", "palau">>,
    <<"pan", "panama">>,
    <<"png", "papua_new_guinea">>,
    <<"pry", "paraguay">>,
    <<"per", "peru">>,
    <<"pcn", "pitcairn">>,
    <<"pol", "poland">>,
    <<"prt", "portugal">>,
    <<"pri", "puerto_rico">>,
    <<"qat", "qatar">>,
    <<"mkd", "republic_of_north_macedonia">>,
    <<"reu", "reunion">>,
    <<"rou", "romania">>,
    <<"rwa", "rwanda">>,
    <<"blm", "saint_barthelemy">>,
    <<"kna", "saint_kitts_and_nevis">>,
    <<"lca", "saint_lucia">>,
    <<"spm", "saint_pierre_and_miquelon">>,
    <<"vct", "saint_vincent_and_the_grenadines">>,
    <<"wsm", "samoa">>,
    <<"smr", "san_marino">>,
    <<"stp", "sao_tome_and_principe">>,
    <<"sau", "saudi_arabia">>,
    <<"sen", "senegal">>,
    <<"srb", "serbia">>,
    <<"syc", "seychelles">>,
    <<"sle", "sierra_leone">>,
    <<"sgp", "singapore">>,
    <<"svk", "slovakia">>,
    <<"svn", "slovenia">>,
    <<"slb", "solomon_islands">>,
    <<"som", "somalia">>,
    <<"zaf", "south_africa">>,
    <<"sgs", "south_georgia_and_the_south_sandwich_islands">>,
    <<"ssd", "south_sudan">>,
    <<"esp", "spain">>,
    <<"lka", "sri_lanka">>,
    <<"pse", "state_of_palestine">>,
    <<"sur", "suriname">>,
    <<"sjm", "svalbard_and_jan_mayen">>,
    <<"swe", "sweden">>,
    <<"che", "switzerland">>,
    <<"syr", "syrian_arab_republic">>,
    <<"twn", "taiwan">>,
    <<"tjk", "tajikistan">>,
    <<"tha", "thailand">>,
    <<"bhs", "the_bahamas">>,
    <<"cym", "the_cayman_islands">>,
    <<"caf", "the_central_african_republic">>,
    <<"cck", "the_cocos_keeling_islands">>,
    <<"com", "the_comoros">>,
    <<"cog", "the_congo">>,
    <<"cok", "the_cook_islands">>,
    <<"prk", "the_democratic_peoples_republic_of_korea">>,
    <<"cod", "the_democratic_republic_of_the_congo">>,
    <<"dom", "the_dominican_republic">>,
    <<"flk", "the_falkland_islands_malvinas">>,
    <<"fro", "the_faroe_islands">>,
    <<"atf", "the_french_southern_territories">>,
    <<"gmb", "the_gambia">>,
    <<"vat", "the_holy_see">>,
    <<"lao", "the_lao_peoples_democratic_republic">>,
    <<"mhl", "the_marshall_islands">>,
    <<"nld", "the_netherlands">>,
    <<"ner", "the_niger">>,
    <<"mnp", "the_northern_mariana_islands">>,
    <<"phl", "the_philippines">>,
    <<"kor", "the_republic_of_korea">>,
    <<"mda", "the_republic_of_moldova">>,
    <<"rus", "the_russian_federation">>,
    <<"sdn", "the_sudan">>,
    <<"tca", "the_turks_and_caicos_islands">>,
    <<"are", "the_united_arab_emirates">>,
    <<"gbr", "the_united_kingdom_of_great_britain_and_northern_ireland">>,
    <<"umi", "the_united_states_minor_outlying_islands">>,
    <<"usa", "the_united_states_of_america">>,
    <<"tls", "timor_leste">>,
    <<"tgo", "togo">>,
    <<"tkl", "tokelau">>,
    <<"ton", "tonga">>,
    <<"tto", "trinidad_and_tobago">>,
    <<"tun", "tunisia">>,
    <<"tur", "turkey">>,
    <<"tkm", "turkmenistan">>,
    <<"tuv", "tuvalu">>,
    <<"vir", "us_virgin_islands">>,
    <<"uga", "uganda">>,
    <<"ukr", "ukraine">>,
    <<"tza", "united_republic_of_tanzania">>,
    <<"ury", "uruguay">>,
    <<"uzb", "uzbekistan">>,
    <<"vut", "vanuatu">>,
    <<"vnm", "vietnam">>,
    <<"wlf", "wallis_and_futuna">>,
    <<"esh", "western_sahara">>,
    <<"yem", "yemen">>,
    <<"zmb", "zambia">>,
    <<"zwe", "zimbabwe">>
  >>)

(* lib.rs: static ALIASES of Country::from_alias. *)
ALIASES ==
  phf_map(<<
    <<"samoa", "american_samoa">>,
    <<"sthelena", "ascension_and_tristan_da_cunha_saint_helena">>,
    <<"sainthelena", "ascension_and_tristan_da_cunha_saint_helena">>,
    <<"venezuela", "bolivarian_republic_of_venezuela">>,
    <<"bosnia", "bosnia_and_herzegovina">>,
    <<"herzegovina", "bosnia_and_herzegovina">>,
    <<"brunei", "brunei_darussalam">>,
    <<"burkina", "burkina_faso">>,
    <<"stmaarten", "dutch_part_sint_maarten">>,
    <<"saintmaarten", "dutch_part_sint_maarten">>,
    <<"micronesia", "federated_states_of_micronesia">>,
    <<"stmartin", "french_part_saint_martin">>,
    <<"saintmartin", "french_part_saint_martin">>,
    <<"heardisland", "heard_island_and_mc_donald_islands">>,
    <<"mcdonaldislands", "heard_island_and_mc_donald_islands">>,
    <<"iran", "islamic_republic_of_iran">>,
    <<"macedonia", "republic_of_north_macedonia">>,
    <<"stbarthelemy", "saint_barthelemy">>,
    <<"stkitts", "saint_kitts_and_nevis">>,
    <<"stlucia", "saint_lucia">>,
    <<"stpierre", "saint_pierre_and_miquelon">>,
    <<"saintpierre", "saint_pierre_and_miquelon">>,
    <<"stvincent", "saint_vincent_and_the_grenadines">>,
    <<"saintvincent", "saint_vincent_and_the_grenadines">>,
    <<"saotome", "sao_tome_and_principe">>,
    <<"southgeorgia", "south_georgia_and_the_south_sandwich_islands">>,
    <<"southsandwichislands", "south_georgia_and_the_south_sandwich_islands">>,
    <<"palestine", "state_of_palestine">>,
    <<"taiwan", "taiwan">>,
    <<"bahamas", "the_bahamas">>,
    <<"caymanislands", "the_cayman_islands">>,
    <<"centralafricanrepublic", "the_central_african_republic">>,
    <<"cocosislands", "the_cocos_keeling_islands">>,
    <<"keelingislands", "the_cocos_keeling_islands">>,
    <<"comoros", "the_comoros">>,
    <<"congo", "the_congo">>,
    <<"cookislands", "the_cook_islands">>,
    <<"czechrepublic", "czechia">>,
    <<"northkorea", "the_democratic_peoples_republic_of_korea">>,
    <<"democraticpeoplesrepublicofkorea", "the_democratic_peoples_republic_of_korea">>,
    <<"democraticrepublicofthecongo", "the_democratic_republic_of_the_congo">>,
    <<"dominicanrepublic", "the_dominican_republic">>,
    <<"easttimor", "timor_leste">>,
    <<"malvinas", "the_falkland_islands_malvinas">>,
    <<"falklandislands", "the_falkland_islands_malvinas">>,
    <<"faroeislands", "the_faroe_islands">>,
    <<"frenchsouthernterritories", "the_french_southern_territories">>,
    <<"gambia", "the_gambia">>,
    <<"holysee", "the_holy_see">>,
    <<"laopeoplesdemocraticrepublic", "the_lao_peoples_democratic_republic">>,
    <<"marshallislands", "the_marshall_islands">>,
    <<"netherlands", "the_netherlands">>,
    <<"holland", "the_netherlands">>,
    <<"niger", "the_niger">>,
    <<"northernmarianaislands", "the_northern_mariana_islands">>,
    <<"philippines", "the_philippines">>,
    <<"southkorea", "the_republic_of_korea">>,
    <<"republicofkorea", "the_republic_of_korea">>,
    <<"moldova", "the_republic_of_moldova">>,
    <<"republicofmoldova", "the_republic_of_moldova">>,
    <<"russia", "the_russian_federation">>,
    <<"russianfederation", "the_russian_federation">>,
    <<"sudan", "the_sudan">>,
    <<"turksandcaicosislands", "the_turks_and_caicos_islands">>,
    <<"unitedarabemirates", "the_united_arab_emirates">>,
    <<"england", "the_united_kingdom_of_great_britain_and_northern_ireland">>,
    <<"scotland", "the_united_kingdom_of_great_britain_and_northern_ireland">>,
    <<"greatbritain", "the_united_kingdom_of_great_britain_and_northern_ireland">>,
    <<"unitedkingdom", "the_united_kingdom_of_great_britain_and_northern_ireland">>,
    <<"northernireland", "the_united_kingdom_of_great_britain_and_northern_ireland">>,
    <<"unitedkingdomofgreatbritain", "the_united_kingdom_of_great_britain_and_northern_ireland">>,
    <<"unitedkingdomofgreatbritainandnorthernireland", "the_united_kingdom_of_great_britain_and_northern_ireland">>,
    <<"unitedstatesminoroutlyingislands", "the_united_states_minor_outlying_islands">>,
    <<"america", "the_united_states_of_america">>,
    <<"unitedstates", "the_united_states_of_america">>,
    <<"unitedstatesofamerica", "the_united_states_of_america">>,
    <<"trinidad", "trinidad_and_tobago">>,
    <<"tobago", "trinidad_and_tobago">>,
    <<"tanzania", "united_republic_of_tanzania">>,
    <<"türkiye", "turkey">>,
    <<"turkey", "turkey">>
  >>)

(* lib.rs: static NAMES of Country::from_name. *)
NAMES ==
  phf_map(<<
    <<"afghanistan", "afghanistan">>,
    <<"alandislands", "aland_islands">>,
    <<"albania", "albania">>,
    <<"algeria", "algeria">>,
    <<"americansamoa", "american_samoa">>,
    <<"andorra", "andorra">>,
    <<"angola", "angola">>,
    <<"anguilla", "anguilla">>,
    <<"antarctica", "antarctica">>,
    <<"antiguaandbarbuda", "antigua_and_barbuda">>,
    <<"argentina", "argentina">>,
    <<"armenia", "armenia">>,
    <<"aruba", "aruba">>,
    <<"ascensionandtristandacunhasainthelena", "ascension_and_tristan_da_cunha_saint_helena">>,
    <<"australia", "australia">>,
    <<"austria", "austria">>,
    <<"azerbaijan", "azerbaijan">>,
    <<"bahrain", "bahrain">>,
    <<"bangladesh", "bangladesh">>,
    <<"barbados", "barbados">>,
    <<"belarus", "belarus">>,
    <<"belgium", "belgium">>,
    <<"belize", "belize">>,
    <<"benin", "benin">>,
    <<"bermuda", "bermuda">>,
    <<"bhutan", "bhutan">>,
    <<"bolivarianrepublicofvenezuela", "bolivarian_republic_of_venezuela">>,
    <<"bolivia", "bolivia">>,
    <<"bonaire", "bonaire">>,
    <<"bosniaandherzegovina", "bosnia_and_herzegovina">>,
    <<"botswana", "botswana">>,
    <<"bouvetisland", "bouvet_island">>,
    <<"brazil", "brazil">>,
    <<"britishindianoceanterritory", "british_indian_ocean_territory">>,
    <<"britishvirginislands", "british_virgin_islands">>,
    <<"bruneidarussalam", "brunei_darussalam">>,
    <<"bulgaria", "bulgaria">>,
    <<"burkinafaso", "burkina_faso">>,
    <<"burundi", "burundi">>,
    <<"caboverde", "cabo_verde">>,
    <<"cambodia", "cambodia">>,
    <<"cameroon", "cameroon">>,
    <<"canada", "canada">>,
    <<"chad", "chad">>,
    <<"chile", "chile">>,
    <<"china", "china">>,
    <<"christmasisland", "christmas_island">>,
    <<"colombia", "colombia">>,
    <<"costarica", "costa_rica">>,
    <<"cotedivoire", "coted_ivoire">>,
    <<"croatia", "croatia">>,
    <<"cuba", "cuba">>,
    <<"curacao", "curacao">>,
    <<"cyprus", "cyprus">>,
    <<"czechia", "czechia">>,
    <<"denmark", "denmark">>,
    <<"djibouti", "djibouti">>,
    <<"dominica", "dominica">>,
    <<"dutchpartsintmaarten", "dutch_part_sint_maarten">>,
    <<"ecuador", "ecuador">>,
    <<"egypt", "egypt">>,
    <<"elsalvador", "el_salvador">>,
    <<"equatorialguinea", "equatorial_guinea">>,
    <<"eritrea", "eritrea">>,
    <<"estonia", "estonia">>,
    <<"eswatini", "eswatini">>,
    <<"ethiopia", "ethiopia">>,
    <<"federatedstatesofmicronesia", "federated_states_of_micronesia">>,
    <<"fiji", "fiji">>,
    <<"finland", "finland">>,
    <<"france", "france">>,
    <<"frenchguiana", "french_guiana">>,
    <<"frenchpartsaintmartin", "french_part_saint_martin">>,
    <<"frenchpolynesia", "french_polynesia">>,
    <<"gabon", "gabon">>,
    <<"georgia", "georgia">>,
    <<"germany", "germany">>,
    <<"ghana", "ghana">>,
    <<"gibraltar", "gibraltar">>,
    <<"greece", "greece">>,
    <<"greenland", "greenland">>,
    <<"grenada", "grenada">>,
    <<"guadeloupe", "guadeloupe">>,
    <<"guam", "guam">>,
    <<"guatemala", "guatemala">>,
    <<"guernsey", "guernsey">>,
    <<"guinea", "guinea">>,
    <<"guineabissau", "guinea_bissau">>,
    <<"guyana", "guyana">>,
    <<"haiti", "haiti">>,
    <<"heardislandandmcdonaldislands", "heard_island_and_mc_donald_islands">>,
    <<"honduras", "honduras">>,
    <<"hongkong", "hong_kong">>,
    <<"hungary", "hungary">>,
    <<"iceland", "iceland">>,
    <<"india", "india">>,
    <<"indonesia", "indonesia">>,
    <<"iraq", "iraq">>,
    <<"ireland", "ireland">>,
    <<"islamicrepublicofiran", "islamic_republic_of_iran">>,
    <<"isleofman", "isle_of_man">>,
    <<"israel", "israel">>,
    <<"italy", "italy">>,
    <<"jamaica", "jamaica">>,
    <<"japan", "japan">>,
    <<"jersey", "jersey">>,
    <<"jordan", "jordan">>,
    <<"kazakhstan", "kazakhstan">>,
    <<"kenya", "kenya">>,
    <<"kiribati", "kiribati">>,
    <<"kosovo", "kosovo">>,
    <<"kuwait", "kuwait">>,
    <<"kyrgyzstan", "kyrgyzstan">>,
    <<"latvia", "latvia">>,
    <<"lebanon", "lebanon">>,
    <<"lesotho", "lesotho">>,
    <<"liberia", "liberia">>,
    <<"libya", "libya">>,
    <<"liechtenstein", "liechtenstein">>,
    <<"lithuania", "lithuania">>,
    <<"luxembourg", "luxembourg">>,
    <<"macao", "macao">>,
    <<"madagascar", "madagascar">>,
    <<"malawi", "malawi">>,
    <<"malaysia", "malaysia">>,
    <<"maldives", "maldives">>,
    <<"mali", "mali">>,
    <<"malta", "malta">>,
    <<"martinique", "martinique">>,
    <<"mauritania", "mauritania">>,
    <<"mauritius", "mauritius">>,
    <<"mayotte", "mayotte">>,
    <<"mexico", "mexico">>,
    <<"monaco", "monaco">>,
    <<"mongolia", "mongolia">>,
    <<"montenegro", "montenegro">>,
    <<"montserrat", "montserrat">>,
    <<"morocco", "morocco">>,
    <<"mozambique", "mozambique">>,
    <<"myanmar", "myanmar">>,
    <<"namibia", "namibia">>,
    <<"nauru", "nauru">>,
    <<"nepal", "nepal">>,
    <<"newcaledonia", "new_caledonia">>,
    <<"newzealand", "new_zealand">>,
    <<"nicaragua", "nicaragua">>,
    <<"nigeria", "nigeria">>,
    <<"niue", "niue">>,
    <<"norfolkisland", "norfolk_island">>,
    <<"norway", "norway">>,
    <<"oman", "oman">>,
    <<"pakistan", "pakistan">>,
    <<"palau", "palau">>,
    <<"panama", "panama">>,
    <<"papuanewguinea", "papua_new_guinea">>,
    <<"paraguay", "paraguay">>,
    <<"peru", "peru">>,
    <<"pitcairn", "pitcairn">>,
    <<"poland", "poland">>,
    <<"portugal", "portugal">>,
    <<"puertorico", "puerto_rico">>,
    <<"qatar", "qatar">>,
    <<"republicofnorthmacedonia", "republic_of_north_macedonia">>,
    <<"reunion", "reunion">>,
    <<"romania", "romania">>,
    <<"rwanda", "rwanda">>,
    <<"saintbarthelemy", "saint_barthelemy">>,
    <<"saintkittsandnevis", "saint_kitts_and_nevis">>,
    <<"saintlucia", "saint_lucia">>,
    <<"saintpierreandmiquelon", "saint_pierre_and_miquelon">>,
    <<"saintvincentandthegrenadines", "saint_vincent_and_the_grenadines">>,
    <<"samoa", "samoa">>,
    <<"sanmarino", "san_marino">>,
    <<"saotomeandprincipe", "sao_tome_and_principe">>,
    <<"saudiarabia", "saudi_arabia">>,
    <<"senegal", "senegal">>,
    <<"serbia", "serbia">>,
    <<"seychelles", "seychelles">>,
    <<"sierraleone", "sierra_leone">>,
    <<"singapore", "singapore">>,
    <<"slovakia", "slovakia">>,
    <<"slovenia", "slovenia">>,
    <<"solomonislands", "solomon_islands">>,
    <<"somalia", "somalia">>,
    <<"southafrica", "south_africa">>,
    <<"southgeorgiaandthesouthsandwichislands", "south_georgia_and_the_south_sandwich_islands">>,
    <<"southsudan", "south_sudan">>,
    <<"spain", "spain">>,
    <<"srilanka", "sri_lanka">>,
    <<"stateofpalestine", "state_of_palestine">>,
    <<"suriname", "suriname">>,
    <<"svalbardandjanmayen", "svalbard_and_jan_mayen">>,
    <<"sweden", "sweden">>,
    <<"switzerland", "switzerland">>,
    <<"syrianarabrepublic", "syrian_arab_republic">>,
    <<"taiwan,republicofchina", "taiwan">>,
    <<"tajikistan", "tajikistan">>,
    <<"thailand", "thailand">>,
    <<"thebahamas", "the_bahamas">>,
    <<"thecaymanislands", "the_cayman_islands">>,
    <<"thecentralafricanrepublic", "the_central_african_republic">>,
    <<"thecocoskeelingislands", "the_cocos_keeling_islands">>,
    <<"thecomoros", "the_comoros">>,
    <<"thecongo", "the_congo">>,
    <<"thecookislands", "the_cook_islands">>,
    <<"thedemocraticpeoplesrepublicofkorea", "the_democratic_peoples_republic_of_korea">>,
    <<"thedemocraticrepublicofthecongo", "the_democratic_republic_of_the_congo">>,
    <<"thedominicanrepublic", "the_dominican_republic">>,
    <<"thefalklandislandsmalvinas", "the_falkland_islands_malvinas">>,
    <<"thefaroeislands", "the_faroe_islands">>,
    <<"thefrenchsouthernterritories", "the_french_southern_territories">>,
    <<"thegambia", "the_gambia">>,
    <<"theholysee", "the_holy_see">>,
    <<"thelaopeoplesdemocraticrepublic", "the_lao_peoples_democratic_republic">>,
    <<"themarshallislands", "the_marshall_islands">>,
    <<"thenetherlands", "the_netherlands">>,
    <<"theniger", "the_niger">>,
    <<"thenorthernmarianaislands", "the_northern_mariana_islands">>,
    <<"thephilippines", "the_philippines">>,
    <<"therepublicofkorea", "the_republic_of_korea">>,
    <<"therepublicofmoldova", "the_republic_of_moldova">>,
    <<"therussianfederation", "the_russian_federation">>,
    <<"thesudan", "the_sudan">>,
    <<"theturksandcaicosislands", "the_turks_and_caicos_islands">>,
    <<"theunitedarabemirates", "the_united_arab_emirates">>,
    <<"theunitedkingdomofgreatbritainandnorthernireland", "the_united_kingdom_of_great_britain_and_northern_ireland">>,
    <<"theunitedstatesminoroutlyingislands", "the_united_states_minor_outlying_islands">>,
    <<"theunitedstatesofamerica", "the_united_states_of_america">>,
    <<"timorleste", "timor_leste">>,
    <<"easttimor", "timor_leste">>,
    <<"togo", "togo">>,
    <<"tokelau", "tokelau">>,
    <<"tonga", "tonga">>,
    <<"trinidadandtobago", "trinidad_and_tobago">>,
    <<"tunisia", "tunisia">>,
    <<"turkey", "turkey">>,
    <<"türkiye", "turkey">>,
    <<"turkmenistan", "turkmenistan">>,
    <<"tuvalu", "tuvalu">>,
    <<"usvirginislands", "us_virgin_islands">>,
    <<"uganda", "uganda">>,
    <<"ukraine", "ukraine">>,
    <<"unitedrepublicoftanzania", "united_republic_of_tanzania">>,
    <<"uruguay", "uruguay">>,
    <<"uzbekistan", "uzbekistan">>,
    <<"vanuatu", "vanuatu">>,
    <<"vietnam", "vietnam">>,
    <<"wallisandfutuna", "wallis_and_futuna">>,
    <<"westernsahara", "western_sahara">>,
    <<"yemen", "yemen">>,
    <<"zambia", "zambia">>,
    <<"zimbabwe", "zimbabwe">>
  >>)

(* lib.rs: static CODES of <Country as FromStr>::from_str. *)
FROM_STR_CODES ==
  phf_map(<<
    <<"afghanistan", "afghanistan">>,
    <<"004", "afghanistan">>,
    <<"af", "afghanistan">>,
    <<"afg", "afghanistan">>,
    <<"alandislands", "aland_islands">>,
    <<"aland_islands", "aland_islands">>,
    <<"248", "aland_islands">>,
    <<"ax", "aland_islands">>,
    <<"ala", "aland_islands">>,
    <<"albania", "albania">>,
    <<"008", "albania">>,
    <<"al", "albania">>,
    <<"alb", "albania">>,
    <<"algeria", "algeria">>,
    <<"012", "algeria">>,
    <<"dz", "algeria">>,
    <<"dza", "algeria">>,
    <<"americansamoa", "american_samoa">>,
    <<"american_samoa", "american_samoa">>,
    <<"016", "american_samoa">>,
    <<"as", "american_samoa">>,
    <<"asm", "american_samoa">>,
    <<"andorra", "andorra">>,
    <<"020", "andorra">>,
    <<"ad", "andorra">>,
    <<"and", "andorra">>,
    <<"angola", "angola">>,
    <<"024", "angola">>,
    <<"ao", "angola">>,
    <<"ago", "angola">>,
    <<"anguilla", "anguilla">>,
    <<"660", "anguilla">>,
    <<"ai", "anguilla">>,
    <<"aia", "anguilla">>,
    <<"antarctica", "antarctica">>,
    <<"010", "antarctica">>,
    <<"aq", "antarctica">>,
    <<"ata", "antarctica">>,
    <<"antiguaandbarbuda", "antigua_and_barbuda">>,
    <<"antigua_and_barbuda", "antigua_and_barbuda">>,
    <<"028", "antigua_and_barbuda">>,
    <<"ag", "antigua_and_barbuda">>,
    <<"atg", "antigua_and_barbuda">>,
    <<"argentina", "argentina">>,
    <<"032", "argentina">>,
    <<"ar", "argentina">>,
    <<"arg", "argentina">>,
    <<"armenia", "armenia">>,
    <<"051", "armenia">>,
    <<"am", "armenia">>,
    <<"arm", "armenia">>,
    <<"aruba", "aruba">>,
    <<"533", "aruba">>,
    <<"aw", "aruba">>,
    <<"abw", "aruba">>,
    <<"ascensionandtristandacunhasainthelena", "ascension_and_tristan_da_cunha_saint_helena">>,
    <<"ascension_and_tristan_da_cunha_saint_helena", "ascension_and_tristan_da_cunha_saint_helena">>,
    <<"654", "ascension_and_tristan_da_cunha_saint_helena">>,
    <<"sh", "ascension_and_tristan_da_cunha_saint_helena">>,
    <<"shn", "ascension_and_tristan_da_cunha_saint_helena">>,
    <<"sthelena", "ascension_and_tristan_da_cunha_saint_helena">>,
    <<"sainthelena", "ascension_and_tristan_da_cunha_saint_helena">>,
    <<"australia", "australia">>,
    <<"036", "australia">>,
    <<"au", "australia">>,
    <<"aus", "australia">>,
    <<"austria", "austria">>,
    <<"040", "austria">>,
    <<"at", "austria">>,
    <<"aut", "austria">>,
    <<"azerbaijan", "azerbaijan">>,
    <<"031", "azerbaijan">>,
    <<"az", "azerbaijan">>,
    <<"aze", "azerbaijan">>,
    <<"bahrain", "bahrain">>,
    <<"048", "bahrain">>,
    <<"bh", "bahrain">>,
    <<"bhr", "bahrain">>,
    <<"bangladesh", "bangladesh">>,
    <<"050", "bangladesh">>,
    <<"bd", "bangladesh">>,
    <<"bgd", "bangladesh">>,
    <<"barbados", "barbados">>,
    <<"052", "barbados">>,
    <<"bb", "barbados">>,
    <<"brb", "barbados">>,
    <<"belarus", "belarus">>,
    <<"112", "belarus">>,
    <<"by", "belarus">>,
    <<"blr", "belarus">>,
    <<"belgium", "belgium">>,
    <<"056", "belgium">>,
    <<"be", "belgium">>,
    <<"bel", "belgium">>,
    <<"belize", "belize">>,
    <<"084", "belize">>,
    <<"bz", "belize">>,
    <<"blz", "belize">>,
    <<"benin", "benin">>,
    <<"204", "benin">>,
    <<"bj", "benin">>,
    <<"ben", "benin">>,
    <<"bermuda", "bermuda">>,
    <<"060", "bermuda">>,
    <<"bm", "bermuda">>,
    <<"bmu", "bermuda">>,
    <<"bhutan", "bhutan">>,
    <<"064", "bhutan">>,
    <<"bt", "bhutan">>,
    <<"btn", "bhutan">>,
    <<"bolivarianrepublicofvenezuela", "bolivarian_republic_of_venezuela">>,
    <<"bolivarian_republic_of_venezuela", "bolivarian_republic_of_venezuela">>,
    <<"862", "bolivarian_republic_of_venezuela">>,
    <<"ve", "bolivarian_republic_of_venezuela">>,
    <<"ven", "bolivarian_republic_of_venezuela">>,
    <<"venezuela", "bolivarian_republic_of_venezuela">>,
    <<"bolivia", "bolivia">>,
    <<"068", "bolivia">>,
    <<"bo", "bolivia">>,
    <<"bol", "bolivia">>,
    <<"bonaire", "bonaire">>,
    <<"535", "bonaire">>,
    <<"bq", "bonaire">>,
    <<"bes", "bonaire">>,
    <<"bosniaandherzegovina", "bosnia_and_herzegovina">>,
    <<"bosnia_and_herzegovina", "bosnia_and_herzegovina">>,
    <<"070", "bosnia_and_herzegovina">>,
    <<"ba", "bosnia_and_herzegovina">>,
    <<"bih", "bosnia_and_herzegovina">>,
    <<"bosnia", "bosnia_and_herzegovina">>,
    <<"herzegovina", "bosnia_and_herzegovina">>,
    <<"botswana", "botswana">>,
    <<"072", "botswana">>,
    <<"bw", "botswana">>,
    <<"bwa", "botswana">>,
    <<"bouvetisland", "bouvet_island">>,
    <<"bouvet_island", "bouvet_island">>,
    <<"074", "bouvet_island">>,
    <<"bv", "bouvet_island">>,
    <<"bvt", "bouvet_island">>,
    <<"brazil", "brazil">>,
    <<"076", "brazil">>,
    <<"br", "brazil">>,
    <<"bra", "brazil">>,
    <<"britishindianoceanterritory", "british_indian_ocean_territory">>,
    <<"british_indian_ocean_territory", "british_indian_ocean_territory">>,
    <<"086", "british_indian_ocean_territory">>,
    <<"io", "british_indian_ocean_territory">>,
    <<"iot", "british_indian_ocean_territory">>,
    <<"britishvirginislands", "british_virgin_islands">>,
    <<"british_virgin_islands", "british_virgin_islands">>,
    <<"092", "british_virgin_islands">>,
    <<"vg", "british_virgin_islands">>,
    <<"vgb", "british_virgin_islands">>,
    <<"bruneidarussalam", "brunei_darussalam">>,
    <<"brunei_darussalam", "brunei_darussalam">>,
    <<"096", "brunei_darussalam">>,
    <<"bn", "brunei_darussalam">>,
    <<"brn", "brunei_darussalam">>,
    <<"brunei", "brunei_darussalam">>,
    <<"bulgaria", "bulgaria">>,
    <<"100", "bulgaria">>,
    <<"bg", "bulgaria">>,
    <<"bgr", "bulgaria">>,
    <<"burkinafaso", "burkina_faso">>,
    <<"burkina_faso", "burkina_faso">>,
    <<"854", "burkina_faso">>,
    <<"bf", "burkina_faso">>,
    <<"bfa", "burkina_faso">>,
    <<"burkina", "burkina_faso">>,
    <<"burundi", "burundi">>,
    <<"108", "burundi">>,
    <<"bi", "burundi">>,
    <<"bdi", "burundi">>,
    <<"caboverde", "cabo_verde">>,
    <<"cabo_verde", "cabo_verde">>,
    <<"132", "cabo_verde">>,
    <<"cv", "cabo_verde">>,
    <<"cpv", "cabo_verde">>,
    <<"cambodia", "cambodia">>,
    <<"116", "cambodia">>,
    <<"kh", "cambodia">>,
    <<"khm", "cambodia">>,
    <<"cameroon", "cameroon">>,
    <<"120", "cameroon">>,
    <<"cm", "cameroon">>,
    <<"cmr", "cameroon">>,
    <<"canada", "canada">>,
    <<"124", "canada">>,
    <<"ca", "canada">>,
    <<"can", "canada">>,
    <<"chad", "chad">>,
    <<"148", "chad">>,
    <<"td", "chad">>,
    <<"tcd", "chad">>,
    <<"chile", "chile">>,
    <<"152", "chile">>,
    <<"cl", "chile">>,
    <<"chl", "chile">>,
    <<"china", "china">>,
    <<"156", "china">>,
    <<"cn", "china">>,
    <<"chn", "china">>,
    <<"christmasisland", "christmas_island">>,
    <<"christmas_island", "christmas_island">>,
    <<"162", "christmas_island">>,
    <<"cx", "christmas_island">>,
    <<"cxr", "christmas_island">>,
    <<"colombia", "colombia">>,
    <<"170", "colombia">>,
    <<"co", "colombia">>,
    <<"col", "colombia">>,
    <<"costarica", "costa_rica">>,
    <<"costa_rica", "costa_rica">>,
    <<"188", "costa_rica">>,
    <<"cr", "costa_rica">>,
    <<"cri", "costa_rica">>,
    <<"cotedivoire", "coted_ivoire">>,
    <<"coted_ivoire", "coted_ivoire">>,
    <<"384", "coted_ivoire">>,
    <<"ci", "coted_ivoire">>,
    <<"civ", "coted_ivoire">>,
    <<"croatia", "croatia">>,
    <<"191", "croatia">>,
    <<"hr", "croatia">>,
    <<"hrv", "croatia">>,
    <<"cuba", "cuba">>,
    <<"192", "cuba">>,
    <<"cu", "cuba">>,
    <<"cub", "cuba">>,
    <<"curacao", "curacao">>,
    <<"531", "curacao">>,
    <<"cw", "curacao">>,
    <<"cuw", "curacao">>,
    <<"cyprus", "cyprus">>,
    <<"196", "cyprus">>,
    <<"cy", "cyprus">>,
    <<"cyp", "cyprus">>,
    <<"czechia", "czechia">>,
    <<"czechrepublic", "czechia">>,
    <<"203", "czechia">>,
    <<"cz", "czechia">>,
    <<"cze", "czechia">>,
    <<"denmark", "denmark">>,
    <<"208", "denmark">>,
    <<"dk", "denmark">>,
    <<"dnk", "denmark">>,
    <<"djibouti", "djibouti">>,
    <<"262", "djibouti">>,
    <<"dj", "djibouti">>,
    <<"dji", "djibouti">>,
    <<"dominica", "dominica">>,
    <<"212", "dominica">>,
    <<"dm", "dominica">>,
    <<"dma", "dominica">>,
    <<"dutchpartsintmaarten", "dutch_part_sint_maarten">>,
    <<"dutch_part_sint_maarten", "dutch_part_sint_maarten">>,
    <<"534", "dutch_part_sint_maarten">>,
    <<"sx", "dutch_part_sint_maarten">>,
    <<"sxm", "dutch_part_sint_maarten">>,
    <<"stmaarten", "dutch_part_sint_maarten">>,
    <<"sintmaarten", "dutch_part_sint_maarten">>,
    <<"ecuador", "ecuador">>,
    <<"218", "ecuador">>,
    <<"ec", "ecuador">>,
    <<"ecu", "ecuador">>,
    <<"egypt", "egypt">>,
    <<"818", "egypt">>,
    <<"eg", "egypt">>,
    <<"egy", "egypt">>,
    <<"elsalvador", "el_salvador">>,
    <<"el_salvador", "el_salvador">>,
    <<"222", "el_salvador">>,
    <<"sv", "el_salvador">>,
    <<"slv", "el_salvador">>,
    <<"equatorialguinea", "equatorial_guinea">>,
    <<"equatorial_guinea", "equatorial_guinea">>,
    <<"226", "equatorial_guinea">>,
    <<"gq", "equatorial_guinea">>,
    <<"gnq", "equatorial_guinea">>,
    <<"eritrea", "eritrea">>,
    <<"232", "eritrea">>,
    <<"er", "eritrea">>,
    <<"eri", "eritrea">>,
    <<"estonia", "estonia">>,
    <<"233", "estonia">>,
    <<"ee", "estonia">>,
    <<"est", "estonia">>,
    <<"eswatini", "eswatini">>,
    <<"748", "eswatini">>,
    <<"sz", "eswatini">>,
    <<"swz", "eswatini">>,
    <<"ethiopia", "ethiopia">>,
    <<"231", "ethiopia">>,
    <<"et", "ethiopia">>,
    <<"eth", "ethiopia">>,
    <<"federatedstatesofmicronesia", "federated_states_of_micronesia">>,
    <<"federated_states_of_micronesia", "federated_states_of_micronesia">>,
    <<"583", "federated_states_of_micronesia">>,
    <<"fm", "federated_states_of_micronesia">>,
    <<"fsm", "federated_states_of_micronesia">>,
    <<"micronesia", "federated_states_of_micronesia">>,
    <<"fiji", "fiji">>,
    <<"242", "fiji">>,
    <<"fj", "fiji">>,
    <<"fji", "fiji">>,
    <<"finland", "finland">>,
    <<"246", "finland">>,
    <<"fi", "finland">>,
    <<"fin", "finland">>,
    <<"france", "france">>,
    <<"250", "france">>,
    <<"fr", "france">>,
    <<"fra", "france">>,
    <<"frenchguiana", "french_guiana">>,
    <<"french_guiana", "french_guiana">>,
    <<"254", "french_guiana">>,
    <<"gf", "french_guiana">>,
    <<"guf", "french_guiana">>,
    <<"frenchpartsaintmartin", "french_part_saint_martin">>,
    <<"french_part_saint_martin", "french_part_saint_martin">>,
    <<"663", "french_part_saint_martin">>,
    <<"mf", "french_part_saint_martin">>,
    <<"maf", "french_part_saint_martin">>,
    <<"stmartin", "french_part_saint_martin">>,
    <<"saintmartin", "french_part_saint_martin">>,
    <<"frenchpolynesia", "french_polynesia">>,
    <<"258", "french_polynesia">>,
    <<"pf", "french_polynesia">>,
    <<"pyf", "french_polynesia">>,
    <<"gabon", "gabon">>,
    <<"266", "gabon">>,
    <<"ga", "gabon">>,
    <<"gab", "gabon">>,
    <<"georgia", "georgia">>,
    <<"268", "georgia">>,
    <<"ge", "georgia">>,
    <<"geo", "georgia">>,
    <<"germany", "germany">>,
    <<"276", "germany">>,
    <<"de", "germany">>,
    <<"deu", "germany">>,
    <<"ghana", "ghana">>,
    <<"288", "ghana">>,
    <<"gh", "ghana">>,
    <<"gha", "ghana">>,
    <<"gibraltar", "gibraltar">>,
    <<"292", "gibraltar">>,
    <<"gi", "gibraltar">>,
    <<"gib", "gibraltar">>,
    <<"greece", "greece">>,
    <<"300", "greece">>,
    <<"gr", "greece">>,
    <<"grc", "greece">>,
    <<"greenland", "greenland">>,
    <<"304", "greenland">>,
    <<"gl", "greenland">>,
    <<"grl", "greenland">>,
    <<"grenada", "grenada">>,
    <<"308", "grenada">>,
    <<"gd", "grenada">>,
    <<"grd", "grenada">>,
    <<"guadeloupe", "guadeloupe">>,
    <<"312", "guadeloupe">>,
    <<"gp", "guadeloupe">>,
    <<"glp", "guadeloupe">>,
    <<"guam", "guam">>,
    <<"316", "guam">>,
    <<"gu", "guam">>,
    <<"gum", "guam">>,
    <<"guatemala", "guatemala">>,
    <<"320", "guatemala">>,
    <<"gt", "guatemala">>,
    <<"gtm", "guatemala">>,
    <<"guernsey", "guernsey">>,
    <<"831", "guernsey">>,
    <<"gg", "guernsey">>,
    <<"ggy", "guernsey">>,
    <<"guinea", "guinea">>,
    <<"324", "guinea">>,
    <<"gn", "guinea">>,
    <<"gin", "guinea">>,
    <<"guineabissau", "guinea_bissau">>,
    <<"guinea_bissau", "guinea_bissau">>,
    <<"624", "guinea_bissau">>,
    <<"gw", "guinea_bissau">>,
    <<"gnb", "guinea_bissau">>,
    <<"guyana", "guyana">>,
    <<"328", "guyana">>,
    <<"gy", "guyana">>,
    <<"guy", "guyana">>,
    <<"haiti", "haiti">>,
    <<"332", "haiti">>,
    <<"ht", "haiti">>,
    <<"hti", "haiti">>,
    <<"heardislandandmcdonaldislands", "heard_island_and_mc_donald_islands">>,
    <<"heard_island_and_mc_donald_islands", "heard_island_and_mc_donald_islands">>,
    <<"334", "heard_island_and_mc_donald_islands">>,
    <<"hm", "heard_island_and_mc_donald_islands">>,
    <<"hmd", "heard_island_and_mc_donald_islands">>,
    <<"heardisland", "heard_island_and_mc_donald_islands">>,
    <<"mcdonaldislands", "heard_island_and_mc_donald_islands">>,
    <<"honduras", "honduras">>,
    <<"340", "honduras">>,
    <<"hn", "honduras">>,
    <<"hnd", "honduras">>,
    <<"hongkong", "hong_kong">>,
    <<"hong_kong", "hong_kong">>,
    <<"344", "hong_kong">>,
    <<"hk", "hong_kong">>,
    <<"hkg", "hong_kong">>,
    <<"hungary", "hungary">>,
    <<"348", "hungary">>,
    <<"hu", "hungary">>,
    <<"hun", "hungary">>,
    <<"iceland", "iceland">>,
    <<"352", "iceland">>,
    <<"is", "iceland">>,
    <<"isl", "iceland">>,
    <<"india", "india">>,
    <<"356", "india">>,
    <<"in", "india">>,
    <<"ind", "india">>,
    <<"indonesia", "indonesia">>,
    <<"360", "indonesia">>,
    <<"id", "indonesia">>,
    <<"idn", "indonesia">>,
    <<"iraq", "iraq">>,
    <<"368", "iraq">>,
    <<"iq", "iraq">>,
    <<"irq", "iraq">>,
    <<"ireland", "ireland">>,
    <<"372", "ireland">>,
    <<"ie", "ireland">>,
    <<"irl", "ireland">>,
    <<"islamicrepublicofiran", "islamic_republic_of_iran">>,
    <<"islamic_republic_of_iran", "islamic_republic_of_iran">>,
    <<"364", "islamic_republic_of_iran">>,
    <<"ir", "islamic_republic_of_iran">>,
    <<"irn", "islamic_republic_of_iran">>,
    <<"iran", "islamic_republic_of_iran">>,
    <<"isleofman", "isle_of_man">>,
    <<"isle_of_man", "isle_of_man">>,
    <<"833", "isle_of_man">>,
    <<"im", "isle_of_man">>,
    <<"imn", "isle_of_man">>,
    <<"israel", "israel">>,
    <<"376", "israel">>,
    <<"il", "israel">>,
    <<"isr", "israel">>,
    <<"italy", "italy">>,
    <<"380", "italy">>,
    <<"it", "italy">>,
    <<"ita", "italy">>,
    <<"jamaica", "jamaica">>,
    <<"388", "jamaica">>,
    <<"jm", "jamaica">>,
    <<"jam", "jamaica">>,
    <<"japan", "japan">>,
    <<"392", "japan">>,
    <<"jp", "japan">>,
    <<"jpn", "japan">>,
    <<"jersey", "jersey">>,
    <<"832", "jersey">>,
    <<"je", "jersey">>,
    <<"jey", "jersey">>,
    <<"jordan", "jordan">>,
    <<"400", "jordan">>,
    <<"jo", "jordan">>,
    <<"jor", "jordan">>,
    <<"kazakhstan", "kazakhstan">>,
    <<"398", "kazakhstan">>,
    <<"kz", "kazakhstan">>,
    <<"kaz", "kazakhstan">>,
    <<"kenya", "kenya">>,
    <<"404", "kenya">>,
    <<"ke", "kenya">>,
    <<"ken", "kenya">>,
    <<"kiribati", "kiribati">>,
    <<"296", "kiribati">>,
    <<"ki", "kiribati">>,
    <<"kir", "kiribati">>,
    <<"kosovo", "kosovo">>,
    <<"383", "kosovo">>,
    <<"xk", "kosovo">>,
    <<"xkx", "kosovo">>,
    <<"kuwait", "kuwait">>,
    <<"414", "kuwait">>,
    <<"kw", "kuwait">>,
    <<"kwt", "kuwait">>,
    <<"kyrgyzstan", "kyrgyzstan">>,
    <<"417", "kyrgyzstan">>,
    <<"kg", "kyrgyzstan">>,
    <<"kgz", "kyrgyzstan">>,
    <<"latvia", "latvia">>,
    <<"428", "latvia">>,
    <<"lv", "latvia">>,
    <<"lva", "latvia">>,
    <<"lebanon", "lebanon">>,
    <<"422", "lebanon">>,
    <<"lb", "lebanon">>,
    <<"lbn", "lebanon">>,
    <<"lesotho", "lesotho">>,
    <<"426", "lesotho">>,
    <<"ls", "lesotho">>,
    <<"lso", "lesotho">>,
    <<"liberia", "liberia">>,
    <<"430", "liberia">>,
    <<"lr", "liberia">>,
    <<"lbr", "liberia">>,
    <<"libya", "libya">>,
    <<"434", "libya">>,
    <<"ly", "libya">>,
    <<"lby", "libya">>,
    <<"liechtenstein", "liechtenstein">>,
    <<"438", "liechtenstein">>,
    <<"li", "liechtenstein">>,
    <<"lie", "liechtenstein">>,
    <<"lithuania", "lithuania">>,
    <<"440", "lithuania">>,
    <<"lt", "lithuania">>,
    <<"ltu", "lithuania">>,
    <<"luxembourg", "luxembourg">>,
    <<"442", "luxembourg">>,
    <<"lu", "luxembourg">>,
    <<"lux", "luxembourg">>,
    <<"macao", "macao">>,
    <<"446", "macao">>,
    <<"mo", "macao">>,
    <<"mac", "macao">>,
    <<"madagascar", "madagascar">>,
    <<"450", "madagascar">>,
    <<"mg", "madagascar">>,
    <<"mdg", "madagascar">>,
    <<"malawi", "malawi">>,
    <<"454", "malawi">>,
    <<"mw", "malawi">>,
    <<"mwi", "malawi">>,
    <<"malaysia", "malaysia">>,
    <<"458", "malaysia">>,
    <<"my", "malaysia">>,
    <<"mys", "malaysia">>,
    <<"maldives", "maldives">>,
    <<"462", "maldives">>,
    <<"mv", "maldives">>,
    <<"mdv", "maldives">>,
    <<"mali", "mali">>,
    <<"466", "mali">>,
    <<"ml", "mali">>,
    <<"mli", "mali">>,
    <<"malta", "malta">>,
    <<"470", "malta">>,
    <<"mt", "malta">>,
    <<"mlt", "malta">>,
    <<"martinique", "martinique">>,
    <<"474", "martinique">>,
    <<"mq", "martinique">>,
    <<"mtq", "martinique">>,
    <<"mauritania", "mauritania">>,
    <<"478", "mauritania">>,
    <<"mr", "mauritania">>,
    <<"mrt", "mauritania">>,
    <<"mauritius", "mauritius">>,
    <<"480", "mauritius">>,
    <<"mu", "mauritius">>,
    <<"mus", "mauritius">>,
    <<"mayotte", "mayotte">>,
    <<"175", "mayotte">>,
    <<"yt", "mayotte">>,
    <<"myt", "mayotte">>,
    <<"mexico", "mexico">>,
    <<"484", "mexico">>,
    <<"mx", "mexico">>,
    <<"mex", "mexico">>,
    <<"monaco", "monaco">>,
    <<"492", "monaco">>,
    <<"mc", "monaco">>,
    <<"mco", "monaco">>,
    <<"mongolia", "mongolia">>,
    <<"496", "mongolia">>,
    <<"mn", "mongolia">>,
    <<"mng", "mongolia">>,
    <<"montenegro", "montenegro">>,
    <<"499", "montenegro">>,
    <<"me", "montenegro">>,
    <<"mne", "montenegro">>,
    <<"montserrat", "montserrat">>,
    <<"500", "montserrat">>,
    <<"ms", "montserrat">>,
    <<"msr", "montserrat">>,
    <<"morocco", "morocco">>,
    <<"504", "morocco">>,
    <<"ma", "morocco">>,
    <<"mar", "morocco">>,
    <<"mozambique", "mozambique">>,
    <<"508", "mozambique">>,
    <<"mz", "mozambique">>,
    <<"moz", "mozambique">>,
    <<"myanmar", "myanmar">>,
    <<"104", "myanmar">>,
    <<"mm", "myanmar">>,
    <<"mmr", "myanmar">>,
    <<"namibia", "namibia">>,
    <<"516", "namibia">>,
    <<"na", "namibia">>,
    <<"nam", "namibia">>,
    <<"nauru", "nauru">>,
    <<"520", "nauru">>,
    <<"nr", "nauru">>,
    <<"nru", "nauru">>,
    <<"nepal", "nepal">>,
    <<"524", "nepal">>,
    <<"np", "nepal">>,
    <<"npl", "nepal">>,
    <<"newcaledonia", "new_caledonia">>,
    <<"new_caledonia", "new_caledonia">>,
    <<"540", "new_caledonia">>,
    <<"nc", "new_caledonia">>,
    <<"ncl", "new_caledonia">>,
    <<"newzealand", "new_zealand">>,
    <<"new_zealand", "new_zealand">>,
    <<"554", "new_zealand">>,
    <<"nz", "new_zealand">>,
    <<"nzl", "new_zealand">>,
    <<"nicaragua", "nicaragua">>,
    <<"558", "nicaragua">>,
    <<"ni", "nicaragua">>,
    <<"nic", "nicaragua">>,
    <<"nigeria", "nigeria">>,
    <<"566", "nigeria">>,
    <<"ng", "nigeria">>,
    <<"nga", "nigeria">>,
    <<"niue", "niue">>,
    <<"570", "niue">>,
    <<"nu", "niue">>,
    <<"niu", "niue">>,
    <<"norfolkisland", "norfolk_island">>,
    <<"norfolk_island", "norfolk_island">>,
    <<"574", "norfolk_island">>,
    <<"nf", "norfolk_island">>,
    <<"nfk", "norfolk_island">>,
    <<"norway", "norway">>,
    <<"578", "norway">>,
    <<"no", "norway">>,
    <<"nor", "norway">>,
    <<"oman", "oman">>,
    <<"512", "oman">>,
    <<"om", "oman">>,
    <<"omn", "oman">>,
    <<"pakistan", "pakistan">>,
    <<"586", "pakistan">>,
    <<"pk", "pakistan">>,
    <<"pak", "pakistan">>,
    <<"palau", "palau">>,
    <<"585", "palau">>,
    <<"pw", "palau">>,
    <<"plw", "palau">>,
    <<"panama", "panama">>,
    <<"591", "panama">>,
    <<"pa", "panama">>,
    <<"pan", "panama">>,
    <<"papuanewguinea", "papua_new_guinea">>,
    <<"papua_new_guinea", "papua_new_guinea">>,
    <<"598", "papua_new_guinea">>,
    <<"pg", "papua_new_guinea">>,
    <<"png", "papua_new_guinea">>,
    <<"paraguay", "paraguay">>,
    <<"600", "paraguay">>,
    <<"py", "paraguay">>,
    <<"pry", "paraguay">>,
    <<"peru", "peru">>,
    <<"604", "peru">>,
    <<"pe", "peru">>,
    <<"per", "peru">>,
    <<"pitcairn", "pitcairn">>,
    <<"612", "pitcairn">>,
    <<"pn", "pitcairn">>,
    <<"pcn", "pitcairn">>,
    <<"poland", "poland">>,
    <<"616", "poland">>,
    <<"pl", "poland">>,
    <<"pol", "poland">>,
    <<"portugal", "portugal">>,
    <<"620", "portugal">>,
    <<"pt", "portugal">>,
    <<"prt", "portugal">>,
    <<"puertorico", "puerto_rico">>,
    <<"puerto_rico", "puerto_rico">>,
    <<"630", "puerto_rico">>,
    <<"pr", "puerto_rico">>,
    <<"pri", "puerto_rico">>,
    <<"qatar", "qatar">>,
    <<"634", "qatar">>,
    <<"qa", "qatar">>,
    <<"qat", "qatar">>,
    <<"republicofnorthmacedonia", "republic_of_north_macedonia">>,
    <<"republic_of_north_macedonia", "republic_of_north_macedonia">>,
    <<"807", "republic_of_north_macedonia">>,
    <<"mk", "republic_of_north_macedonia">>,
    <<"mkd", "republic_of_north_macedonia">>,
    <<"macedonia", "republic_of_north_macedonia">>,
    <<"reunion", "reunion">>,
    <<"638", "reunion">>,
    <<"re", "reunion">>,
    <<"reu", "reunion">>,
    <<"romania", "romania">>,
    <<"642", "romania">>,
    <<"ro", "romania">>,
    <<"rou", "romania">>,
    <<"rwanda", "rwanda">>,
    <<"646", "rwanda">>,
    <<"rw", "rwanda">>,
    <<"rwa", "rwanda">>,
    <<"saintbarthelemy", "saint_barthelemy">>,
    <<"saint_barthelemy", "saint_barthelemy">>,
    <<"652", "saint_barthelemy">>,
    <<"bl", "saint_barthelemy">>,
    <<"blm", "saint_barthelemy">>,
    <<"stbarthelemy", "saint_barthelemy">>,
    <<"saintkittsandnevis", "saint_kitts_and_nevis">>,
    <<"saint_kitts_and_nevis", "saint_kitts_and_nevis">>,
    <<"659", "saint_kitts_and_nevis">>,
    <<"kn", "saint_kitts_and_nevis">>,
    <<"kna", "saint_kitts_and_nevis">>,
    <<"stkitts", "saint_kitts_and_nevis">>,
    <<"saintlucia", "saint_lucia">>,
    <<"saint_lucia", "saint_lucia">>,
    <<"662", "saint_lucia">>,
    <<"lc", "saint_lucia">>,
    <<"lca", "saint_lucia">>,
    <<"stlucia", "saint_lucia">>,
    <<"saintpierreandmiquelon", "saint_pierre_and_miquelon">>,
    <<"saint_pierre_and_miquelon", "saint_pierre_and_miquelon">>,
    <<"666", "saint_pierre_and_miquelon">>,
    <<"pm", "saint_pierre_and_miquelon">>,
    <<"spm", "saint_pierre_and_miquelon">>,
    <<"stpierre", "saint_pierre_and_miquelon">>,
    <<"saintpierre", "saint_pierre_and_miquelon">>,
    <<"saintvincentandthegrenadines", "saint_vincent_and_the_grenadines">>,
    <<"saint_vincent_and_the_grenadines", "saint_vincent_and_the_grenadines">>,
    <<"670", "saint_vincent_and_the_grenadines">>,
    <<"vc", "saint_vincent_and_the_grenadines">>,
    <<"vct", "saint_vincent_and_the_grenadines">>,
    <<"stvincent", "saint_vincent_and_the_grenadines">>,
    <<"saintvincent", "saint_vincent_and_the_grenadines">>,
    <<"samoa", "samoa">>,
    <<"882", "samoa">>,
    <<"ws", "samoa">>,
    <<"wsm", "samoa">>,
    <<"sanmarino", "san_marino">>,
    <<"san_marino", "san_marino">>,
    <<"674", "san_marino">>,
    <<"sm", "san_marino">>,
    <<"smr", "san_marino">>,
    <<"saotomeandprincipe", "sao_tome_and_principe">>,
    <<"sao_tome_and_principe", "sao_tome_and_principe">>,
    <<"678", "sao_tome_and_principe">>,
    <<"st", "sao_tome_and_principe">>,
    <<"stp", "sao_tome_and_principe">>,
    <<"saotome", "sao_tome_and_principe">>,
    <<"saudiarabia", "saudi_arabia">>,
    <<"saudi_arabia", "saudi_arabia">>,
    <<"682", "saudi_arabia">>,
    <<"sa", "saudi_arabia">>,
    <<"sau", "saudi_arabia">>,
    <<"senegal", "senegal">>,
    <<"686", "senegal">>,
    <<"sn", "senegal">>,
    <<"sen", "senegal">>,
    <<"serbia", "serbia">>,
    <<"688", "serbia">>,
    <<"rs", "serbia">>,
    <<"srb", "serbia">>,
    <<"seychelles", "seychelles">>,
    <<"690", "seychelles">>,
    <<"sc", "seychelles">>,
    <<"syc", "seychelles">>,
    <<"sierraleone", "sierra_leone">>,
    <<"sierra_leone", "sierra_leone">>,
    <<"694", "sierra_leone">>,
    <<"sl", "sierra_leone">>,
    <<"sle", "sierra_leone">>,
    <<"singapore", "singapore">>,
    <<"702", "singapore">>,
    <<"sg", "singapore">>,
    <<"sgp", "singapore">>,
    <<"slovakia", "slovakia">>,
    <<"703", "slovakia">>,
    <<"sk", "slovakia">>,
    <<"svk", "slovakia">>,
    <<"slovenia", "slovenia">>,
    <<"705", "slovenia">>,
    <<"si", "slovenia">>,
    <<"svn", "slovenia">>,
    <<"solomonislands", "solomon_islands">>,
    <<"solomon_islands", "solomon_islands">>,
    <<"090", "solomon_islands">>,
    <<"sb", "solomon_islands">>,
    <<"slb", "solomon_islands">>,
    <<"somalia", "somalia">>,
    <<"706", "somalia">>,
    <<"so", "somalia">>,
    <<"som", "somalia">>,
    <<"southafrica", "south_africa">>,
    <<"south_africa", "south_africa">>,
    <<"710", "south_africa">>,
    <<"za", "south_africa">>,
    <<"zaf", "south_africa">>,
    <<"southgeorgiaandthesouthsandwichislands", "south_georgia_and_the_south_sandwich_islands">>,
    <<"south_georgia_and_the_south_sandwich_islands", "south_georgia_and_the_south_sandwich_islands">>,
    <<"239", "south_georgia_and_the_south_sandwich_islands">>,
    <<"gs", "south_georgia_and_the_south_sandwich_islands">>,
    <<"sgs", "south_georgia_and_the_south_sandwich_islands">>,
    <<"southgeorgia", "south_georgia_and_the_south_sandwich_islands">>,
    <<"southsandwichislands", "south_georgia_and_the_south_sandwich_islands">>,
    <<"southsudan", "south_sudan">>,
    <<"south_sudan", "south_sudan">>,
    <<"728", "south_sudan">>,
    <<"ss", "south_sudan">>,
    <<"ssd", "south_sudan">>,
    <<"spain", "spain">>,
    <<"724", "spain">>,
    <<"es", "spain">>,
    <<"esp", "spain">>,
    <<"srilanka", "sri_lanka">>,
    <<"sri_lanka", "sri_lanka">>,
    <<"144", "sri_lanka">>,
    <<"lk", "sri_lanka">>,
    <<"lka", "sri_lanka">>,
    <<"stateofpalestine", "state_of_palestine">>,
    <<"state_of_palestine", "state_of_palestine">>,
    <<"275", "state_of_palestine">>,
    <<"ps", "state_of_palestine">>,
    <<"pse", "state_of_palestine">>,
    <<"palestine", "state_of_palestine">>,
    <<"suriname", "suriname">>,
    <<"740", "suriname">>,
    <<"sr", "suriname">>,
    <<"sur", "suriname">>,
    <<"svalbardandjanmayen", "svalbard_and_jan_mayen">>,
    <<"svalbard_and_jan_mayen", "svalbard_and_jan_mayen">>,
    <<"744", "svalbard_and_jan_mayen">>,
    <<"sj", "svalbard_and_jan_mayen">>,
    <<"sjm", "svalbard_and_jan_mayen">>,
    <<"sweden", "sweden">>,
    <<"752", "sweden">>,
    <<"se", "sweden">>,
    <<"swe", "sweden">>,
    <<"switzerland", "switzerland">>,
    <<"756", "switzerland">>,
    <<"ch", "switzerland">>,
    <<"che", "switzerland">>,
    <<"syrianarabrepublic", "syrian_arab_republic">>,
    <<"syrian_arab_republic", "syrian_arab_republic">>,
    <<"760", "syrian_arab_republic">>,
    <<"sy", "syrian_arab_republic">>,
    <<"syr", "syrian_arab_republic">>,
    <<"taiwan,republicofchina", "taiwan">>,
    <<"taiwan", "taiwan">>,
    <<"158", "taiwan">>,
    <<"tw", "taiwan">>,
    <<"twn", "taiwan">>,
    <<"tajikistan", "tajikistan">>,
    <<"762", "tajikistan">>,
    <<"tj", "tajikistan">>,
    <<"tjk", "tajikistan">>,
    <<"thailand", "thailand">>,
    <<"764", "thailand">>,
    <<"th", "thailand">>,
    <<"tha", "thailand">>,
    <<"thebahamas", "the_bahamas">>,
    <<"the_bahamas", "the_bahamas">>,
    <<"044", "the_bahamas">>,
    <<"bs", "the_bahamas">>,
    <<"bhs", "the_bahamas">>,
    <<"bahamas", "the_bahamas">>,
    <<"thecaymanislands", "the_cayman_islands">>,
    <<"the_cayman_islands", "the_cayman_islands">>,
    <<"136", "the_cayman_islands">>,
    <<"ky", "the_cayman_islands">>,
    <<"cym", "the_cayman_islands">>,
    <<"caymanislands", "the_cayman_islands">>,
    <<"thecentralafricanrepublic", "the_central_african_republic">>,
    <<"the_central_african_republic", "the_central_african_republic">>,
    <<"140", "the_central_african_republic">>,
    <<"cf", "the_central_african_republic">>,
    <<"caf", "the_central_african_republic">>,
    <<"centralafricanrepublic", "the_central_african_republic">>,
    <<"thecocoskeelingislands", "the_cocos_keeling_islands">>,
    <<"the_cocos_keeling_islands", "the_cocos_keeling_islands">>,
    <<"166", "the_cocos_keeling_islands">>,
    <<"cc", "the_cocos_keeling_islands">>,
    <<"cck", "the_cocos_keeling_islands">>,
    <<"cocosislands", "the_cocos_keeling_islands">>,
    <<"keelingislands", "the_cocos_keeling_islands">>,
    <<"thecomoros", "the_comoros">>,
    <<"the_comoros", "the_comoros">>,
    <<"174", "the_comoros">>,
    <<"km", "the_comoros">>,
    <<"com", "the_comoros">>,
    <<"comoros", "the_comoros">>,
    <<"thecongo", "the_congo">>,
    <<"the_congo", "the_congo">>,
    <<"178", "the_congo">>,
    <<"cg", "the_congo">>,
    <<"cog", "the_congo">>,
    <<"congo", "the_congo">>,
    <<"thecookislands", "the_cook_islands">>,
    <<"the_cook_islands", "the_cook_islands">>,
    <<"184", "the_cook_islands">>,
    <<"ck", "the_cook_islands">>,
    <<"cok", "the_cook_islands">>,
    <<"cookislands", "the_cook_islands">>,
    <<"thedemocraticpeoplesrepublicofkorea", "the_democratic_peoples_republic_of_korea">>,
    <<"the_democratic_peoples_republic_of_korea", "the_democratic_peoples_republic_of_korea">>,
    <<"408", "the_democratic_peoples_republic_of_korea">>,
    <<"kp", "the_democratic_peoples_republic_of_korea">>,
    <<"prk", "the_democratic_peoples_republic_of_korea">>,
    <<"northkorea", "the_democratic_peoples_republic_of_korea">>,
    <<"democraticpeoplesrepublicofkorea", "the_democratic_peoples_republic_of_korea">>,
    <<"thedemocraticrepublicofthecongo", "the_democratic_republic_of_the_congo">>,
    <<"the_democratic_republic_of_the_congo", "the_democratic_republic_of_the_congo">>,
    <<"180", "the_democratic_republic_of_the_congo">>,
    <<"cd", "the_democratic_republic_of_the_congo">>,
    <<"cod", "the_democratic_republic_of_the_congo">>,
    <<"democraticrepublicofthecongo", "the_democratic_republic_of_the_congo">>,
    <<"thedominicanrepublic", "the_dominican_republic">>,
    <<"the_dominican_republic", "the_dominican_republic">>,
    <<"214", "the_dominican_republic">>,
    <<"do", "the_dominican_republic">>,
    <<"dom", "the_dominican_republic">>,
    <<"dominicanrepublic", "the_dominican_republic">>,
    <<"thefalklandislandsmalvinas", "the_falkland_islands_malvinas">>,
    <<"the_falkland_islands_malvinas", "the_falkland_islands_malvinas">>,
    <<"238", "the_falkland_islands_malvinas">>,
    <<"fk", "the_falkland_islands_malvinas">>,
    <<"flk", "the_falkland_islands_malvinas">>,
    <<"malvinas", "the_falkland_islands_malvinas">>,
    <<"falklandislands", "the_falkland_islands_malvinas">>,
    <<"thefaroeislands", "the_faroe_islands">>,
    <<"the_faroe_islands", "the_faroe_islands">>,
    <<"234", "the_faroe_islands">>,
    <<"fo", "the_faroe_islands">>,
    <<"fro", "the_faroe_islands">>,
    <<"faroeislands", "the_faroe_islands">>,
    <<"thefrenchsouthernterritories", "the_french_southern_territories">>,
    <<"the_french_southern_territories", "the_french_southern_territories">>,
    <<"260", "the_french_southern_territories">>,
    <<"tf", "the_french_southern_territories">>,
    <<"atf", "the_french_southern_territories">>,
    <<"frenchsouthernterritories", "the_french_southern_territories">>,
    <<"thegambia", "the_gambia">>,
    <<"the_gambia", "the_gambia">>,
    <<"270", "the_gambia">>,
    <<"gm", "the_gambia">>,
    <<"gmb", "the_gambia">>,
    <<"gambia", "the_gambia">>,
    <<"theholysee", "the_holy_see">>,
    <<"the_holy_see", "the_holy_see">>,
    <<"336", "the_holy_see">>,
    <<"va", "the_holy_see">>,
    <<"vat", "the_holy_see">>,
    <<"holysee", "the_holy_see">>,
    <<"thelaopeoplesdemocraticrepublic", "the_lao_peoples_democratic_republic">>,
    <<"the_lao_peoples_democratic_republic", "the_lao_peoples_democratic_republic">>,
    <<"418", "the_lao_peoples_democratic_republic">>,
    <<"la", "the_lao_peoples_democratic_republic">>,
    <<"lao", "the_lao_peoples_democratic_republic">>,
    <<"laopeoplesdemocraticrepublic", "the_lao_peoples_democratic_republic">>,
    <<"themarshallislands", "the_marshall_islands">>,
    <<"the_marshall_islands", "the_marshall_islands">>,
    <<"584", "the_marshall_islands">>,
    <<"mh", "the_marshall_islands">>,
    <<"mhl", "the_marshall_islands">>,
    <<"marshallislands", "the_marshall_islands">>,
    <<"thenetherlands", "the_netherlands">>,
    <<"the_netherlands", "the_netherlands">>,
    <<"528", "the_netherlands">>,
    <<"nl", "the_netherlands">>,
    <<"nld", "the_netherlands">>,
    <<"netherlands", "the_netherlands">>,
    <<"holland", "the_netherlands">>,
    <<"theniger", "the_niger">>,
    <<"the_niger", "the_niger">>,
    <<"562", "the_niger">>,
    <<"ne", "the_niger">>,
    <<"ner", "the_niger">>,
    <<"niger", "the_niger">>,
    <<"thenorthernmarianaislands", "the_northern_mariana_islands">>,
    <<"the_northern_mariana_islands", "the_northern_mariana_islands">>,
    <<"580", "the_northern_mariana_islands">>,
    <<"mp", "the_northern_mariana_islands">>,
    <<"mnp", "the_northern_mariana_islands">>,
    <<"northernmarianaislands", "the_northern_mariana_islands">>,
    <<"thephilippines", "the_philippines">>,
    <<"the_philippines", "the_philippines">>,
    <<"608", "the_philippines">>,
    <<"ph", "the_philippines">>,
    <<"phl", "the_philippines">>,
    <<"philippines", "the_philippines">>,
    <<"therepublicofkorea", "the_republic_of_korea">>,
    <<"the_republic_of_korea", "the_republic_of_korea">>,
    <<"410", "the_republic_of_korea">>,
    <<"kr", "the_republic_of_korea">>,
    <<"kor", "the_republic_of_korea">>,
    <<"southkorea", "the_republic_of_korea">>,
    <<"republicofkorea", "the_republic_of_korea">>,
    <<"therepublicofmoldova", "the_republic_of_moldova">>,
    <<"the_republic_of_moldova", "the_republic_of_moldova">>,
    <<"498", "the_republic_of_moldova">>,
    <<"md", "the_republic_of_moldova">>,
    <<"mda", "the_republic_of_moldova">>,
    <<"moldova", "the_republic_of_moldova">>,
    <<"republicofmoldova", "the_republic_of_moldova">>,
    <<"therussianfederation", "the_russian_federation">>,
    <<"the_russian_federation", "the_russian_federation">>,
    <<"643", "the_russian_federation">>,
    <<"ru", "the_russian_federation">>,
    <<"rus", "the_russian_federation">>,
    <<"russia", "the_russian_federation">>,
    <<"russianfederation", "the_russian_federation">>,
    <<"thesudan", "the_sudan">>,
    <<"the_sudan", "the_sudan">>,
    <<"729", "the_sudan">>,
    <<"sd", "the_sudan">>,
    <<"sdn", "the_sudan">>,
    <<"sudan", "the_sudan">>,
    <<"theturksandcaicosislands", "the_turks_and_caicos_islands">>,
    <<"the_turks_and_caicos_islands", "the_turks_and_caicos_islands">>,
    <<"796", "the_turks_and_caicos_islands">>,
    <<"tc", "the_turks_and_caicos_islands">>,
    <<"tca", "the_turks_and_caicos_islands">>,
    <<"turksandcaicosislands", "the_turks_and_caicos_islands">>,
    <<"theunitedarabemirates", "the_united_arab_emirates">>,
    <<"the_united_arab_emirates", "the_united_arab_emirates">>,
    <<"784", "the_united_arab_emirates">>,
    <<"ae", "the_united_arab_emirates">>,
    <<"are", "the_united_arab_emirates">>,
    <<"unitedarabemirates", "the_united_arab_emirates">>,
    <<"theunitedkingdomofgreatbritainandnorthernireland", "the_united_kingdom_of_great_britain_and_northern_ireland">>,
    <<"the_united_kingdom_of_great_britain_and_northern_ireland", "the_united_kingdom_of_great_britain_and_northern_ireland">>,
    <<"826", "the_united_kingdom_of_great_britain_and_northern_ireland">>,
    <<"gb", "the_united_kingdom_of_great_britain_and_northern_ireland">>,
    <<"gbr", "the_united_kingdom_of_great_britain_and_northern_ireland">>,
    <<"england", "the_united_kingdom_of_great_britain_and_northern_ireland">>,
    <<"scotland", "the_united_kingdom_of_great_britain_and_northern_ireland">>,
    <<"greatbritain", "the_united_kingdom_of_great_britain_and_northern_ireland">>,
    <<"unitedkingdom", "the_united_kingdom_of_great_britain_and_northern_ireland">>,
    <<"northernireland", "the_united_kingdom_of_great_britain_and_northern_ireland">>,
    <<"unitedkingdomofgreatbritain", "the_united_kingdom_of_great_britain_and_northern_ireland">>,
    <<"unitedkingdomofgreatbritainandnorthernireland", "the_united_kingdom_of_great_britain_and_northern_ireland">>,
    <<"theunitedstatesminoroutlyingislands", "the_united_states_minor_outlying_islands">>,
    <<"the_united_states_minor_outlying_islands", "the_united_states_minor_outlying_islands">>,
    <<"581", "the_united_states_minor_outlying_islands">>,
    <<"um", "the_united_states_minor_outlying_islands">>,
    <<"umi", "the_united_states_minor_outlying_islands">>,
    <<"unitedstatesminoroutlyingislands", "the_united_states_minor_outlying_islands">>,
    <<"theunitedstatesofamerica", "the_united_states_of_america">>,
    <<"the_united_states_of_america", "the_united_states_of_america">>,
    <<"840", "the_united_states_of_america">>,
    <<"us", "the_united_states_of_america">>,
    <<"usa", "the_united_states_of_america">>,
    <<"america", "the_united_states_of_america">>,
    <<"united states", "the_united_states_of_america">>,
    <<"unitedstates", "the_united_states_of_america">>,
    <<"unitedstatesofamerica", "the_united_states_of_america">>,
    <<"united_states_of_america", "the_united_states_of_america">>,
    <<"timorleste", "timor_leste">>,
    <<"timor_leste", "timor_leste">>,
    <<"626", "timor_leste">>,
    <<"tl", "timor_leste">>,
    <<"tls", "timor_leste">>,
    <<"togo", "togo">>,
    <<"768", "togo">>,
    <<"tg", "togo">>,
    <<"tgo", "togo">>,
    <<"tokelau", "tokelau">>,
    <<"772", "tokelau">>,
    <<"tk", "tokelau">>,
    <<"tkl", "tokelau">>,
    <<"tonga", "tonga">>,
    <<"776", "tonga">>,
    <<"to", "tonga">>,
    <<"ton", "tonga">>,
    <<"trinidadandtobago", "trinidad_and_tobago">>,
    <<"trinidad_and_tobago", "trinidad_and_tobago">>,
    <<"780", "trinidad_and_tobago">>,
    <<"tt", "trinidad_and_tobago">>,
    <<"tto", "trinidad_and_tobago">>,
    <<"trinidad", "trinidad_and_tobago">>,
    <<"tobago", "trinidad_and_tobago">>,
    <<"tunisia", "tunisia">>,
    <<"788", "tunisia">>,
    <<"tn", "tunisia">>,
    <<"tun", "tunisia">>,
    <<"turkey", "turkey">>,
    <<"türkiye", "turkey">>,
    <<"792", "turkey">>,
    <<"tr", "turkey">>,
    <<"tur", "turkey">>,
    <<"turkmenistan", "turkmenistan">>,
    <<"795", "turkmenistan">>,
    <<"tm", "turkmenistan">>,
    <<"tkm", "turkmenistan">>,
    <<"tuvalu", "tuvalu">>,
    <<"798", "tuvalu">>,
    <<"tv", "tuvalu">>,
    <<"tuv", "tuvalu">>,
    <<"usvirginislands", "us_virgin_islands">>,
    <<"us_virgin_islands", "us_virgin_islands">>,
    <<"850", "us_virgin_islands">>,
    <<"vi", "us_virgin_islands">>,
    <<"vir", "us_virgin_islands">>,
    <<"uganda", "uganda">>,
    <<"800", "uganda">>,
    <<"ug", "uganda">>,
    <<"uga", "uganda">>,
    <<"ukraine", "ukraine">>,
    <<"804", "ukraine">>,
    <<"ua", "ukraine">>,
    <<"ukr", "ukraine">>,
    <<"unitedrepublicoftanzania", "united_republic_of_tanzania">>,
    <<"united_republic_of_tanzania", "united_republic_of_tanzania">>,
    <<"834", "united_republic_of_tanzania">>,
    <<"tz", "united_republic_of_tanzania">>,
    <<"tza", "united_republic_of_tanzania">>,
    <<"tanzania", "united_republic_of_tanzania">>,
    <<"uruguay", "uruguay">>,
    <<"858", "uruguay">>,
    <<"uy", "uruguay">>,
    <<"ury", "uruguay">>,
    <<"uzbekistan", "uzbekistan">>,
    <<"860", "uzbekistan">>,
    <<"uz", "uzbekistan">>,
    <<"uzb", "uzbekistan">>,
    <<"vanuatu", "vanuatu">>,
    <<"548", "vanuatu">>,
    <<"vu", "vanuatu">>,
    <<"vut", "vanuatu">>,
    <<"vietnam", "vietnam">>,
    <<"704", "vietnam">>,
    <<"vn", "vietnam">>,
    <<"vnm", "vietnam">>,
    <<"wallisandfutuna", "wallis_and_futuna">>,
    <<"wallis_and_futuna", "wallis_and_futuna">>,
    <<"876", "wallis_and_futuna">>,
    <<"wf", "wallis_and_futuna">>,
    <<"wlf", "wallis_and_futuna">>,
    <<"westernsahara", "western_sahara">>,
    <<"western_sahara", "western_sahara">>,
    <<"732", "western_sahara">>,
    <<"eh", "western_sahara">>,
    <<"esh", "western_sahara">>,
    <<"yemen", "yemen">>,
    <<"887", "yemen">>,
    <<"ye", "yemen">>,
    <<"yem", "yemen">>,
    <<"zambia", "zambia">>,
    <<"894", "zambia">>,
    <<"zm", "zambia">>,
    <<"zmb", "zambia">>,
    <<"zimbabwe", "zimbabwe">>,
    <<"716", "zimbabwe">>,
    <<"zw", "zimbabwe">>,
    <<"zwe", "zimbabwe">>
  >>)

(***************************************************************************)
(* Resolvers.                                                              *)
(***************************************************************************)
from_value(value) == ok_or(get(VALUES, value), "invalid value")

\* Mutant of from_code: a short code is padded with zeros before the lookup.
from_code_lenient(code) ==
  LET padded == IF Len(code) = 1 THEN "00" \o code
                ELSE IF Len(code) = 2 THEN "0" \o code ELSE code
  IN  ok_or(get(CODES, to_lowercase(padded)), "invalid code")

from_code(code) == ok_or(get(CODES, to_lowercase(code)), "invalid code")

\* Mutant of from_alpha2: the lookup goes to the alpha-3 table with the
\* argument followed by "a".
from_alpha2_in_alpha3_table(alpha2) ==
  ok_or(get(ALPHA3, to_lowercase(alpha2) \o "a"), "invalid alpha2")

from_alpha2(alpha2) == ok_or(get(ALPHA2, to_lowercase(alpha2)), "invalid alpha2")

\* Mutant of from_alpha3: the lookup goes to the alpha-2 table.
from_alpha3_in_alpha2_table(alpha3) ==
  ok_or(get(ALPHA2, to_lowercase(alpha3)), "invalid alpha3")

from_alpha3(alpha3) == ok_or(get(ALPHA3, to_lowercase(alpha3)), "invalid alpha3")

from_alias(alias) == ok_or(get(ALIASES, to_lowercase(alias)), "invalid alias")

\* Mutant of from_name: the key is looked up without lower-casing it.
from_name_exact(name) == ok_or(get(NAMES, name), "unknown value")

\* Mutant of from_name: the error is the argument instead of the fixed message.
from_name_err_input(name) == ok_or(get(NAMES, to_lowercase(name)), name)

from_name(name) == ok_or(get(NAMES, to_lowercase(name)), "unknown value")

\* Mutant of from_str: a string that is not a key resolves to Afghanistan.
from_str_or_default(code) ==
  LET r == get(FROM_STR_CODES, to_lowercase(code))
  IN  IF r.some THEN Ok(r.v) ELSE Ok(call("afghanistan"))

\* Mutant of from_str: the key is looked up without lower-casing it.
from_str_exact(code) == ok_or(get(FROM_STR_CODES, code), "unknown value")

from_str(code) == ok_or(get(FROM_STR_CODES, to_lowercase(code)), "unknown value")

\* Mutant of visit_str: the string is resolved against the unified table.
visit_str_any_key(s) ==
  LET r == from_str(s)
  IN  IF r.ok THEN r
      ELSE Err([invalid_value |-> s, expected |-> "a two letter string"])

\* CountryVisitor::visit_str; the error is invalid_value(Unexpected::Str(s), &self)
visit_str(s) ==
  LET r == from_alpha2(s)
  IN  IF r.ok THEN r
      ELSE Err([invalid_value |-> s, expected |-> "a two letter string"])

\* impl Deserialize for Country, on the string the deserializer hands over
deserialize(s) == visit_str(s)

(***************************************************************************)
(* Inputs of the caller.                                                   *)
(***************************************************************************)
\* Every key of every static map.
Keys ==
  DOMAIN CODES \cup DOMAIN ALPHA2 \cup DOMAIN ALPHA3 \cup DOMAIN ALIASES
    \cup DOMAIN NAMES \cup DOMAIN FROM_STR_CODES

\* Every string a record or an alias table carries, and each Display form.
Literals ==
  UNION {{c.code, c.alpha2, c.alpha3, c.long_name, to_string(c)} : c \in Range(get_countries)}
    \cup UNION {Range(Tables[t].aliases) \cup Range(Tables[t].loweralias)
                  \cup {replace(Tables[t].long_name, " ", "")} : t \in DOMAIN Tables}

\* The proper suffixes of a code that drop only leading zeros ("4", "04" of "004").
Unpadded(code) ==
  {SubSeq(code, i, Len(code)) : i \in {j \in 2..Len(code) : \A k \in 1..(j - 1) : CharAt(code, k) = "0"}}

\* Strings that are no key of any table, from the crate's doc tests and tests.
NonKeys == {"", "u", "zz", "aaa", "hello", "zzzznotacountry", "0004", " af", "af "}

\* s with the case of its first character flipped.
flip_first(s) ==
  IF s = "" THEN ""
  ELSE (IF Head(s) \in DOMAIN ToLower THEN char_to_lowercase(Head(s))
        ELSE char_to_uppercase(Head(s))) \o Tail(s)

\* s with the case of its last character flipped.
flip_last(s) ==
  IF s = "" THEN ""
  ELSE LET c == CharAt(s, Len(s))
       IN  SubSeq(s, 1, Len(s) - 1)
             \o (IF c \in DOMAIN ToLower THEN char_to_lowercase(c) ELSE char_to_uppercase(c))

CaseVariants(s) == {s, to_lowercase(s), to_uppercase(s), flip_first(s), flip_last(s)}

StrInputs ==
  UNION {CaseVariants(s) :
           s \in Keys \cup Literals \cup NonKeys
                   \cup UNION {Unpadded(c.code) : c \in Range(get_countries)}}

(***************************************************************************)
(* The caller.                                                             *)
(***************************************************************************)
Init == op = "idle" /\ input = "" /\ ret = None

call_from_value ==
  /\ op = "idle"
  /\ \E value \in 0..MaxValue :
       op' = "from_value" /\ input' = value /\ ret' = from_value(value)

call_from_code ==
  /\ op = "idle"
  /\ \E s \in StrInputs :
       op' = "from_code" /\ input' = s /\ ret' = from_code(s)

call_from_alpha2 ==
  /\ op = "idle"
  /\ \E s \in StrInputs :
       op' = "from_alpha2" /\ input' = s /\ ret' = from_alpha2(s)

call_from_alpha3 ==
  /\ op = "idle"
  /\ \E s \in StrInputs :
       op' = "from_alpha3" /\ input' = s /\ ret' = from_alpha3(s)

call_from_alias ==
  /\ op = "idle"
  /\ \E s \in StrInputs :
       op' = "from_alias" /\ input' = s /\ ret' = from_alias(s)

call_from_name ==
  /\ op = "idle"
  /\ \E s \in StrInputs :
       op' = "from_name" /\ input' = s /\ ret' = from_name(s)

call_from_str ==
  /\ op = "idle"
  /\ \E s \in StrInputs :
       op' = "from_str" /\ input' = s /\ ret' = from_str(s)

call_serialize ==
  /\ op = "idle"
  /\ \E c \in Range(get_countries) :
       op' = "serialize" /\ input' = c /\ ret' = serialize(c)

call_deserialize ==
  /\ op = "idle"
  /\ \E s \in StrInputs :
       op' = "deserialize" /\ input' = s /\ ret' = deserialize(s)

\* The caller has consumed the result and is ready for the next call.
Return ==
  /\ op # "idle"
  /\ op' = "idle" /\ input' = "" /\ ret' = None

Next ==
  \/ call_from_value
  \/ call_from_code
  \/ call_from_alpha2
  \/ call_from_alpha3
  \/ call_from_alias
  \/ call_from_name
  \/ call_from_str
  \/ call_serialize
  \/ call_deserialize
  \/ Return

Spec == Init /\ [][Next]_vars

(***************************************************************************)
(* A caller that compares records: ==, cmp and hash on records obtained    *)
(* from get_countries() and from the resolvers.                            *)
(***************************************************************************)
\* Where a record is obtained from.
Sources ==
  {"get_countries", "from_value", "from_code", "from_alpha2", "from_alpha3",
   "from_name", "from_alias", "from_str"}

\* The result of asking source s for the i-th record of get_countries() by
\* that record's own key of the source (for from_alias its first alias, for
\* from_name and from_str its Display form).
obtain(s, i) ==
  LET c == get_countries[i]
  IN  CASE s = "get_countries" -> Ok(c)
        [] s = "from_value" -> from_value(c.value)
        [] s = "from_code" -> from_code(c.code)
        [] s = "from_alpha2" -> from_alpha2(c.alpha2)
        [] s = "from_alpha3" -> from_alpha3(c.alpha3)
        [] s = "from_name" -> from_name(to_string(c))
        [] s = "from_alias" -> IF len(c.aliases) > 0 THEN from_alias(iter(c.aliases)[1])
                               ELSE Err("no alias")
        [] s = "from_str" -> from_str(to_string(c))

\* The place in get_countries() of a record.
position(c) == CHOOSE k \in DOMAIN get_countries : get_countries[k] = c

\* Every record obtained, with its place in get_countries().
Obtained ==
  {[val |-> r.val, pos |-> position(r.val)] :
     r \in {x \in {obtain(s, i) : s \in Sources, i \in DOMAIN get_countries} : x.ok}}

\* The public fields of struct Country.
Fields == {"code", "value", "alpha2", "alpha3", "long_name", "aliases"}

\* The struct literal Country { field: v, ..c }.
with_field(c, field, v) == [c EXCEPT ![field] = v]

\* Pairs of a record of get_countries() and a struct literal built from it
\* with one field of a following record; pos = 0 marks a struct literal of
\* the caller.
StructPairs ==
  LET N == Len(get_countries)
  IN  {<<[val |-> get_countries[i], pos |-> i],
         [val |-> with_field(get_countries[i], f, get_countries[((i + d - 1) % N) + 1][f]),
          pos |-> 0]>> :
         i \in DOMAIN get_countries, f \in Fields, d \in 1..MaxShift}

\* a == b on two records obtained from the crate
call_eq ==
  /\ op = "idle"
  /\ \E a \in Obtained, b \in Obtained :
       /\ input' = <<a, b>>
       /\ ret' = eq(a.val, b.val)
  /\ op' = "eq"

\* a == b on a record and a struct literal
call_eq_struct ==
  /\ op = "idle"
  /\ \E p \in StructPairs :
       /\ input' = p
       /\ ret' = eq(p[1].val, p[2].val)
  /\ op' = "eq"

\* a.hash(state) and b.hash(state): the data each feeds to its hasher
call_hash ==
  /\ op = "idle"
  /\ \E p \in StructPairs \cup {<<a, a>> : a \in Obtained} :
       /\ input' = p
       /\ ret' = <<hash(p[1].val), hash(p[2].val)>>
  /\ op' = "hash"

\* a.cmp(b) on two records obtained from the crate
call_cmp ==
  /\ op = "idle"
  /\ \E a \in Obtained, b \in Obtained :
       /\ input' = <<a, b>>
       /\ ret' = cmp(a.val, b.val)
  /\ op' = "cmp"

\* Country::get_countries()
call_get_countries ==
  /\ op = "idle"
  /\ input' = <<>>
  /\ ret' = get_countries
  /\ op' = "get_countries"

NextTraits ==
  \/ call_eq
  \/ call_eq_struct
  \/ call_hash
  \/ call_cmp
  \/ call_get_countries
  \/ Return

SpecTraits == Init /\ [][NextTraits]_vars

(***************************************************************************)
(* A caller of the alias tables.                                           *)
(***************************************************************************)
\* The alias tables: every lookup! table and the empty one.
AllTables ==
  [n \in DOMAIN Tables \cup {"EmptyLookupTable"} |->
     IF n = "EmptyLookupTable" THEN EMPTY_LOOKUP_TABLE ELSE Tables[n]]

\* The strings handed to contains: the aliases and patterns of every table
\* in their case variants, canonical names, and strings that are no alias.
ContainsInputs ==
  UNION {CaseVariants(s) :
           s \in NonKeys \cup {"Türkiye", "Samoa", "American Samoa"}
                 \cup UNION {Range(Tables[n].aliases) \cup Range(Tables[n].loweralias) :
                               n \in DOMAIN Tables}}

\* table.contains(alias)
call_contains ==
  /\ op = "idle"
  /\ \E n \in DOMAIN AllTables, alias \in ContainsInputs :
       /\ input' = <<n, alias>>
       /\ ret' = contains(AllTables[n], alias)
  /\ op' = "contains"

\* usize::partial_cmp
usize_partial_cmp(m, n) ==
  Some(IF m < n THEN "Less" ELSE IF m > n THEN "Greater" ELSE "Equal")

\* The loop of partial_cmp over self.iter().zip(other.iter()), from the i-th
\* pair on: res is the comparison of the last pair visited, and the loop
\* breaks at the first pair that is not Equal.
RECURSIVE zip_partial_cmp(_, _, _, _)
zip_partial_cmp(l, r, i, res) ==
  IF i > Len(l) \/ i > Len(r) THEN res
  ELSE LET c == Some(str_cmp(l[i], r[i]))
       IN  IF c = Some("Equal") THEN zip_partial_cmp(l, r, i + 1, c) ELSE c

\* impl PartialOrd<L> for a lookup! table and for EmptyLookupTable
table_partial_cmp(self, other) ==
  IF self.name = "EmptyLookupTable"
  THEN IF Len(other.aliases) > 0 THEN Some("Greater") ELSE Some("Equal")
  ELSE IF Len(self.aliases) = Len(other.aliases)
       THEN zip_partial_cmp(self.aliases, other.aliases, 1, None)
       ELSE usize_partial_cmp(Len(self.aliases), Len(other.aliases))

\* impl PartialEq<L> for a lookup! table and for EmptyLookupTable
table_eq(self, other) ==
  /\ Len(self.aliases) = Len(other.aliases)
  /\ \A i \in (DOMAIN self.aliases) \cap (DOMAIN other.aliases) :
       self.aliases[i] = other.aliases[i]

\* x.partial_cmp(&y) on two alias tables
call_table_partial_cmp ==
  /\ op = "idle"
  /\ \E x \in DOMAIN AllTables, y \in DOMAIN AllTables :
       /\ input' = <<x, y>>
       /\ ret' = table_partial_cmp(AllTables[x], AllTables[y])
  /\ op' = "partial_cmp"

NextTables ==
  \/ call_contains
  \/ call_table_partial_cmp
  \/ Return

SpecTables == Init /\ [][NextTables]_vars

(***************************************************************************)
(* Concurrent callers.  The maps are `static` items without interior       *)
(* mutability, built at compile time; every lookup reads them through a    *)
(* shared reference.  Here op and ret hold one entry per caller, and input *)
(* holds what the calls read: the argument of each caller and the statics. *)
(***************************************************************************)
Callers == 1..MaxCallers

\* The static maps by the name of the function that declares them.
Statics ==
  [from_value |-> VALUES, from_code |-> CODES, from_alpha2 |-> ALPHA2,
   from_alpha3 |-> ALPHA3, from_alias |-> ALIASES, from_name |-> NAMES,
   from_str |-> FROM_STR_CODES]

\* The calls a caller makes: <<function, argument>>.
ConcurrentCalls ==
  {<<"get_countries", <<>>>>, <<"from_value", 4>>, <<"from_value", 1>>,
   <<"from_code", "004">>, <<"from_alpha2", "us">>, <<"from_alpha3", "USA">>,
   <<"from_alias", "Samoa">>, <<"from_name", "Samoa">>, <<"from_str", "Samoa">>,
   <<"from_str", "zz">>}

\* Mutant of after_get: the lookup removes the key it has read.
after_get_removes(map, k) == [x \in DOMAIN map \ {k} |-> map[x]]

\* The map after Map::get(&self, k): get takes a shared reference to a static
\* map and leaves it as it was.
after_get(map, k) == map

\* The body of a resolver, reading its static map from the state.
lookup_in(statics, name, v) ==
  LET k == IF name = "from_value" THEN v ELSE to_lowercase(v)
      message == CASE name = "from_value" -> "invalid value"
                   [] name = "from_code" -> "invalid code"
                   [] name = "from_alpha2" -> "invalid alpha2"
                   [] name = "from_alpha3" -> "invalid alpha3"
                   [] name = "from_alias" -> "invalid alias"
                   [] name \in {"from_name", "from_str"} -> "unknown value"
  IN  ok_or(get(statics[name], k), message)

InitConcurrent ==
  /\ op = [p \in Callers |-> "idle"]
  /\ input = [args |-> [p \in Callers |-> <<>>], statics |-> Statics]
  /\ ret = [p \in Callers |-> None]

\* Caller p enters a function with its argument.
enter(p) ==
  /\ op[p] = "idle"
  /\ \E c \in ConcurrentCalls :
       /\ op' = [op EXCEPT ![p] = c[1]]
       /\ input' = [input EXCEPT !.args[p] = c[2]]
  /\ UNCHANGED ret

\* Caller p, inside a resolver, reads the static map and gets its result.
lookup_static(p) ==
  /\ op[p] \in DOMAIN Statics
  /\ ret[p] = None
  /\ LET name == op[p]
         k == IF name = "from_value" THEN input.args[p] ELSE to_lowercase(input.args[p])
     IN  /\ ret' = [ret EXCEPT ![p] = lookup_in(input.statics, name, input.args[p])]
         /\ input' = [input EXCEPT !.statics[name] = after_get(input.statics[name], k)]
  /\ UNCHANGED op

\* Caller p, inside get_countries(), builds the array from the constructors.
build_countries(p) ==
  /\ op[p] = "get_countries"
  /\ ret[p] = None
  /\ ret' = [ret EXCEPT ![p] = Ok(get_countries)]
  /\ UNCHANGED <<op, input>>

\* Caller p has its result and goes on to its next call.
finish(p) ==
  /\ op[p] # "idle"
  /\ ret[p] # None
  /\ op' = [op EXCEPT ![p] = "idle"]
  /\ ret' = [ret EXCEPT ![p] = None]
  /\ input' = [input EXCEPT !.args[p] = <<>>]

NextConcurrent ==
  \E p \in Callers :
    \/ enter(p)
    \/ lookup_static(p)
    \/ build_countries(p)
    \/ finish(p)

SpecConcurrent == InitConcurrent /\ [][NextConcurrent]_vars

(***************************************************************************)
(* Properties.                                                             *)
(***************************************************************************)
\* The result r is Ok and carries a record equal (Country's ==) to c.
is_ok_eq(r, c) == r.ok /\ eq(r.val, c)

\* The records of get_countries().
Countries == Range(get_countries)

\* The lower-case forms of the alpha-2 codes of the records.
LowerAlpha2 == {to_lowercase(c.alpha2) : c \in Countries}

\* The Display form of each record of get_countries().
DisplayForm == [i \in DOMAIN get_countries |-> to_string(get_countries[i])]

\* The resolvers that take a string.
StringResolvers ==
  {"from_code", "from_alpha2", "from_alpha3", "from_alias", "from_name", "from_str"}

\* The resolver called `name`, applied to s.
resolve(name, s) ==
  CASE name = "from_code" -> from_code(s)
    [] name = "from_alpha2" -> from_alpha2(s)
    [] name = "from_alpha3" -> from_alpha3(s)
    [] name = "from_alias" -> from_alias(s)
    [] name = "from_name" -> from_name(s)
    [] name = "from_str" -> from_str(s)

\* C1: for every country c of get_countries() and every alias a yielded by
\* c.aliases.iter(), from_alias(a) returns Ok with a record equal to c.
C1_from_alias_resolves_every_alias ==
  op = "from_alias" =>
    \A c \in Countries :
      input \in Range(iter(c.aliases)) => is_ok_eq(ret, c)

\* C2: for every country c of get_countries() and every alias a yielded by
\* c.aliases.iter(), from_str(a) returns Ok with a record equal to c.
C2_from_str_resolves_every_alias ==
  op = "from_str" =>
    \A c \in Countries :
      input \in Range(iter(c.aliases)) => is_ok_eq(ret, c)

\* C3: for every country c of get_countries(), from_value(c.value),
\* from_code(c.code), from_alpha2(c.alpha2) and from_alpha3(c.alpha3) all
\* return Ok with a record equal to c.
C3_primary_keys_resolve ==
  \A c \in Countries :
    /\ (op = "from_value" /\ input = c.value) => is_ok_eq(ret, c)
    /\ (op = "from_code" /\ input = c.code) => is_ok_eq(ret, c)
    /\ (op = "from_alpha2" /\ input = c.alpha2) => is_ok_eq(ret, c)
    /\ (op = "from_alpha3" /\ input = c.alpha3) => is_ok_eq(ret, c)

\* A call of from_alpha3 on the alpha3 of the last record has returned Ok.
C3_witness ==
  /\ op = "from_alpha3"
  /\ input = get_countries[Len(get_countries)].alpha3
  /\ ret.ok

\* C4: for every country c of get_countries(), with d the Display form of c
\* (long_name without its spaces), from_name(d) and from_str(d) both return
\* Ok with a record equal to c.
C4_display_form_resolves ==
  op \in {"from_name", "from_str"} =>
    \A i \in DOMAIN get_countries :
      input = DisplayForm[i] => is_ok_eq(ret, get_countries[i])

\* A call of from_name on the Display form of a name that holds spaces has
\* returned Ok.
C4_witness ==
  /\ op = "from_name"
  /\ \E i \in DOMAIN get_countries :
       input = DisplayForm[i] /\ input # get_countries[i].long_name
  /\ ret.ok

\* C5: whenever from_code, from_alpha2, from_alpha3, from_alias or from_name
\* returns Ok(c) on s, from_str(s) returns Ok with the same record c.
C5_from_str_accepts_every_specific_key ==
  (op \in StringResolvers \ {"from_str"} /\ ret.ok) =>
    is_ok_eq(from_str(input), ret.val)

\* C6: each string resolver returns the same result, the same record or an
\* error on both, on any two strings that have the same lower-case form.
C6_case_insensitive ==
  op \in StringResolvers =>
    \A v \in CaseVariants(input) :
      to_lowercase(v) = to_lowercase(input) => resolve(op, v) = ret

\* A call of from_alpha2 on a mixed-case code has returned Ok.
C6_witness ==
  /\ op = "from_alpha2"
  /\ input = "uS"
  /\ ret.ok
  /\ \E v \in CaseVariants(input) : v # input /\ to_lowercase(v) = to_lowercase(input)

\* C7: for each retired name carried by a deprecated alias table (Burma,
\* Swaziland, CapeVerde, IvoryCoast, Macedonia, Turkey), from_alias and
\* from_str on the retired name return the same record as resolving the
\* country's current canonical name.
C7_retired_names_resolve ==
  op \in {"from_alias", "from_str"} =>
    \A t \in DOMAIN Tables :
      (Tables[t].enum \in DeprecatedVariants /\ input = Tables[t].aliases[1]) =>
        LET current == from_name(replace(Tables[t].long_name, " ", ""))
        IN  current.ok /\ is_ok_eq(ret, current.val)

\* C8: for every country c of get_countries(), serializing c produces
\* exactly the string c.alpha2, and deserializing that string yields a
\* record equal to c.
C8_serialization_round_trip ==
  /\ op = "serialize" =>
       ret = input.alpha2 /\ is_ok_eq(deserialize(ret), input)
  /\ op = "deserialize" =>
       \A c \in Countries :
         input = serialize(c) => is_ok_eq(ret, c)

\* The last record of get_countries() has been serialized.
C8_witness ==
  /\ op = "serialize"
  /\ input = get_countries[Len(get_countries)]
  /\ ret = "ZW"

\* C9: deserializing a string whose lower-case form is not the alpha-2 code
\* of any record returns a decode error and never a record; alpha-3 codes,
\* numeric codes, names and aliases are rejected.
C9_deserialize_rejects_non_alpha2 ==
  op = "deserialize" =>
    /\ to_lowercase(input) \notin LowerAlpha2 =>
         (~ret.ok /\ ret.err.invalid_value = input)
    /\ (\E i \in DOMAIN get_countries :
          LET c == get_countries[i]
          IN  input \in {c.alpha3, c.code, c.long_name, DisplayForm[i]} \cup Range(iter(c.aliases))) =>
         (~ret.ok /\ ret.err.invalid_value = input)

\* An alpha-3 code has been handed to deserialization and rejected.
C9_witness ==
  /\ op = "deserialize"
  /\ \E c \in Countries : input = c.alpha3
  /\ ~ret.ok

\* C10: from_code(s) returns Ok(c) only when s is character for character
\* the three-digit code of c; for every record whose value is below 100 the
\* unpadded decimal forms return Err, while from_value(n) returns that
\* record for the integer n.
C10_from_code_exact_match ==
  /\ (op = "from_code" /\ ret.ok) => input = ret.val.code
  /\ \A c \in Countries :
       c.value < 100 =>
         /\ (op = "from_code" /\ input \in Unpadded(c.code)) => ~ret.ok
         /\ (op = "from_value" /\ input = c.value) => is_ok_eq(ret, c)

\* from_code has been called on "04", an unpadded form of a code, and failed.
C10_witness ==
  /\ op = "from_code"
  /\ input = "04"
  /\ \E c \in Countries : c.value < 100 /\ input \in Unpadded(c.code)
  /\ ~ret.ok

\* The static map a resolver looks its key up in.
index(name) ==
  CASE name = "from_value" -> VALUES
    [] name = "from_code" -> CODES
    [] name = "from_alpha2" -> ALPHA2
    [] name = "from_alpha3" -> ALPHA3
    [] name = "from_alias" -> ALIASES
    [] name = "from_name" -> NAMES
    [] name = "from_str" -> FROM_STR_CODES

\* The key a resolver looks up for the argument v: the integer itself for
\* from_value, the lower-case form of the string for the others.
key(name, v) == IF name = "from_value" THEN v ELSE to_lowercase(v)

\* The error message of each resolver: the argument of its ok_or.
ErrorMessage ==
  [from_value |-> "invalid value", from_code |-> "invalid code",
   from_alpha2 |-> "invalid alpha2", from_alpha3 |-> "invalid alpha3",
   from_alias |-> "invalid alias", from_name |-> "unknown value",
   from_str |-> "unknown value"]

ErrorMessages == Range(ErrorMessage)

\* C11: every resolver is total: on any input it returns either Ok with a
\* record of the registry or Err, and an input whose key (the lower-case
\* form, the integer for from_value) is not a key of the selected index
\* returns Err; so do "zzzznotacountry", "hello" and "aaa" for from_str, "zz"
\* for from_alpha2, and 1 and 2 for from_value.
C11_resolvers_total ==
  /\ op \in StringResolvers \cup {"from_value"} =>
       /\ \/ ret.ok /\ ret.val \in Countries
          \/ ~ret.ok /\ ret.err \in ErrorMessages
       /\ key(op, input) \notin DOMAIN index(op) => ~ret.ok
  /\ (op = "from_str" /\ input \in {"zzzznotacountry", "hello", "aaa"}) => ~ret.ok
  /\ (op = "from_alpha2" /\ input = "zz") => ~ret.ok
  /\ (op = "from_value" /\ input \in {1, 2}) => ~ret.ok

\* from_alpha2 has been called on "zz", which is not a key, and returned Err.
C11_witness ==
  /\ op = "from_alpha2"
  /\ input = "zz"
  /\ key(op, input) \notin DOMAIN index(op)
  /\ ~ret.ok

\* Other arguments that a failed lookup is compared with: the strings of the
\* tests that are keys of no map, and the integers of from_value's doc test.
OtherInputs(name) == IF name = "from_value" THEN {1, 2} ELSE NonKeys

\* The resolver called `name`, applied to v (an integer for from_value).
lookup_by(name, v) == IF name = "from_value" THEN from_value(v) ELSE resolve(name, v)

C13_eq_is_identity_on_registry ==
  (op = "eq" /\ input[1].pos > 0 /\ input[2].pos > 0) =>
    (ret <=> input[1].pos = input[2].pos)

\* Two distinct countries have been compared and found unequal.
C13_witness ==
  /\ op = "eq"
  /\ input[1].pos = 1
  /\ input[2].pos = Len(get_countries)
  /\ ~ret

\* C14: == compares every field of self with the field of other: two Country
\* values are equal only if code, value, alpha2, alpha3, long_name and the
\* alias sequence all agree, so two values that differ in alpha2, in alpha3
\* or in long_name are not equal.
C14_eq_compares_every_field ==
  op = "eq" =>
    LET a == input[1].val
        b == input[2].val
    IN  ret => /\ a.code = b.code
               /\ a.value = b.value
               /\ a.alpha2 = b.alpha2
               /\ a.alpha3 = b.alpha3
               /\ a.long_name = b.long_name
               /\ iter(a.aliases) = iter(b.aliases)

\* C15: hashing is consistent with equality: for any two Country values a
\* and b, a == b implies that a and b feed the same data to the hasher.
C15_hash_consistent_with_eq ==
  op = "hash" =>
    (eq(input[1].val, input[2].val) => ret[1] = ret[2])

\* C16: get_countries() returns the records in ascending order of cmp: for
\* every pair of consecutive entries a, b of the array, a.cmp(b) is Less,
\* where cmp compares long_name in byte order.
C16_get_countries_ascending ==
  (op = "cmp" /\ input[2].pos = input[1].pos + 1) => ret = "Less"

\* C17: the registry has no duplicate keys: get_countries() holds 250
\* records and no two distinct entries share a code, a value, an alpha2, an
\* alpha3 or a long_name.
C17_registry_keys_unique ==
  op = "get_countries" =>
    /\ Len(ret) = 250
    /\ \A i, j \in DOMAIN ret :
         i # j => /\ ret[i].code # ret[j].code
                  /\ ret[i].value # ret[j].value
                  /\ ret[i].alpha2 # ret[j].alpha2
                  /\ ret[i].alpha3 # ret[j].alpha3
                  /\ ret[i].long_name # ret[j].long_name

\* get_countries() has returned its array: 250 records, among them two
\* whose alpha3 codes start with the same two letters.
C17_witness ==
  /\ op = "get_countries"
  /\ Len(ret) = 250
  /\ \E i, j \in DOMAIN ret :
       i # j /\ SubSeq(ret[i].alpha3, 1, 2) = SubSeq(ret[j].alpha3, 1, 2)

\* The lower-case Display forms of the records, and the lower-case forms of
\* the aliases their tables yield.
LowerDisplay == {to_lowercase(DisplayForm[i]) : i \in DOMAIN DisplayForm}

LowerAliases ==
  UNION {{to_lowercase(a) : a \in Range(iter(c.aliases))} : c \in Countries}

\* C18: from_name matches the canonical names only: whenever from_name(s)
\* returns Ok(c), the lower-case form of s is the lower-case form of
\* c.long_name without its spaces; a string that is only an alias of a
\* country, such as "russianfederation" or "unitedstatesofamerica", returns
\* Err.
C18_from_name_matches_names_only ==
  op = "from_name" =>
    /\ ret.ok => to_lowercase(input) = to_lowercase(to_string(ret.val))
    /\ (to_lowercase(input) \in LowerAliases \ LowerDisplay) => ~ret.ok
    /\ input \in {"russianfederation", "unitedstatesofamerica"} => ~ret.ok

\* The lower-case forms of the canonical names and codes of the records.
LowerNamesAndCodes ==
  LowerDisplay \cup LowerAlpha2
    \cup {to_lowercase(c.alpha3) : c \in Countries} \cup {c.code : c \in Countries}

\* C19: from_alias matches the aliases only: whenever from_alias(s) returns
\* Ok(c), s is, ignoring case, one of the strings yielded by
\* c.aliases.iter(); a canonical name or a code that is not also an alias
\* returns Err.
C19_from_alias_matches_aliases_only ==
  op = "from_alias" =>
    /\ ret.ok =>
         to_lowercase(input) \in {to_lowercase(a) : a \in Range(iter(ret.val.aliases))}
    /\ (to_lowercase(input) \in LowerNamesAndCodes \ LowerAliases) => ~ret.ok

\* C20: the index of from_str is the union of the five specific indices and
\* nothing more: whenever from_str(s) returns Ok(c), at least one of
\* from_code(s), from_alpha2(s), from_alpha3(s), from_name(s) or
\* from_alias(s) also returns Ok(c).
C20_from_str_is_union ==
  (op = "from_str" /\ ret.ok) =>
    \E r \in StringResolvers \ {"from_str"} : is_ok_eq(resolve(r, input), ret.val)

\* The lower-case form of s without its underscores and spaces.
without_separators(s) == replace(replace(to_lowercase(s), "_", ""), " ", "")

\* C20, amended: from_str's map holds more than the keys of the five
\* specific maps: whenever from_str(s) returns Ok(c), one of from_code,
\* from_alpha2, from_alpha3, from_name or from_alias returns Ok(c) on s, or
\* from_name or from_alias returns Ok(c) on s without its underscores and
\* spaces, or s is "sintmaarten" in any case and c is
\* dutch_part_sint_maarten().
C20_from_str_is_union_up_to_separators ==
  (op = "from_str" /\ ret.ok) =>
    \/ \E r \in StringResolvers \ {"from_str"} : is_ok_eq(resolve(r, input), ret.val)
    \/ \E r \in {"from_name", "from_alias"} :
         is_ok_eq(resolve(r, without_separators(input)), ret.val)
    \/ to_lowercase(input) = "sintmaarten" /\ ret.val = call("dutch_part_sint_maarten")

\* from_str has returned a record on "aland_islands", which none of the five
\* specific resolvers accepts; from_name accepts it without the underscore.
C20_witness ==
  /\ op = "from_str"
  /\ input = "aland_islands"
  /\ ret.ok
  /\ \A r \in StringResolvers \ {"from_str"} : ~resolve(r, input).ok
  /\ is_ok_eq(from_name(without_separators(input)), ret.val)

\* C21: no lookup key is ambiguous between countries: for every string s,
\* all of from_code, from_alpha2, from_alpha3, from_name, from_alias and
\* from_str that succeed on s return the same record.
C21_no_ambiguous_key ==
  (op \in StringResolvers /\ ret.ok) =>
    \A r \in StringResolvers :
      resolve(r, input).ok => eq(resolve(r, input).val, ret.val)

\* The normalized keys each record of get_countries() claims: its Display
\* form, its aliases, its code, its alpha2 and its alpha3, in lower case.
ClaimedKeys ==
  [i \in DOMAIN get_countries |->
     LET c == get_countries[i]
     IN  {to_lowercase(DisplayForm[i]), c.code, to_lowercase(c.alpha2), to_lowercase(c.alpha3)}
           \cup {to_lowercase(a) : a \in Range(iter(c.aliases))}]

\* The places in get_countries() of the records that claim the key k.
Claimants(k) == {i \in DOMAIN get_countries : k \in ClaimedKeys[i]}

\* C22: key collisions are resolved by a first-registered-wins policy: when
\* one normalized key is claimed by two different records, from_str resolves
\* it to the record that comes first in get_countries() order.
C22_first_registered_wins ==
  op = "from_str" =>
    LET claimants == Claimants(to_lowercase(input))
    IN  Cardinality(claimants) >= 2 =>
          LET first == CHOOSE i \in claimants : \A j \in claimants : i <= j
          IN  is_ok_eq(ret, get_countries[first])

\* C23: lookups never change the registry: in any interleaving of calls to
\* the resolvers and to get_countries() by concurrent callers, the static
\* maps stay as they were built and the result of each call depends only on
\* its own argument, so a lookup made after any other lookups returns what
\* the same lookup returns when made first.
C23_lookups_never_change_registry ==
  /\ input.statics = Statics
  /\ \A p \in Callers :
       ret[p] # None =>
         IF op[p] = "get_countries" THEN ret[p] = Ok(get_countries)
         ELSE ret[p] = lookup_by(op[p], input.args[p])
  /\ \A p, q \in Callers :
       (op[p] = op[q] /\ input.args[p] = input.args[q] /\ ret[p] # None /\ ret[q] # None) =>
         ret[p] = ret[q]

\* Two callers hold the result of the same successful lookup at the same
\* time.
C23_witness ==
  /\ op[1] = "from_alpha2" /\ op[2] = "from_alpha2"
  /\ input.args[1] = "us" /\ input.args[2] = "us"
  /\ ret[1] # None /\ ret[1].ok
  /\ ret[2] = ret[1]

\* The decimal digits and the upper-case ASCII letters.
DIGITS == "0123456789"
ASCII_UPPERCASE == "ABCDEFGHIJKLMNOPQRSTUVWXYZ"

\* Every character of s is a character of the string alphabet.
all_in(s, alphabet) ==
  \A i \in 1..Len(s) : \E j \in 1..Len(alphabet) : CharAt(s, i) = CharAt(alphabet, j)

\* The integer a string of decimal digits denotes.
RECURSIVE decimal(_)
decimal(s) ==
  IF s = "" THEN 0
  ELSE 10 * decimal(SubSeq(s, 1, Len(s) - 1))
         + ((CHOOSE j \in 1..Len(DIGITS) : CharAt(DIGITS, j) = CharAt(s, Len(s))) - 1)

\* C24: every record of get_countries() is well-formed: code is a string of
\* exactly three decimal digits, value is the integer that code denotes,
\* alpha2 is exactly two upper-case letters and alpha3 is exactly three
\* upper-case letters.
C24_records_well_formed ==
  op = "get_countries" =>
    \A i \in DOMAIN ret :
      /\ Len(ret[i].code) = 3
      /\ all_in(ret[i].code, DIGITS)
      /\ ret[i].value = decimal(ret[i].code)
      /\ Len(ret[i].alpha2) = 2
      /\ all_in(ret[i].alpha2, ASCII_UPPERCASE)
      /\ Len(ret[i].alpha3) = 3
      /\ all_in(ret[i].alpha3, ASCII_UPPERCASE)

\* get_countries() has returned its array, whose first record has a code
\* with leading zeros.
C24_witness ==
  /\ op = "get_countries"
  /\ ret[1].code = "004"
  /\ ret[1].value = 4
  /\ ret[1].alpha2 = "AF"

\* C25: LookupTable::contains is case-insensitive membership in the table's
\* own aliases: t.contains(s) is true for every alias of t in every case
\* variant, and false for a string that is not, ignoring case, one of t's
\* aliases (always false for EmptyLookupTable).
C25_contains_is_alias_membership ==
  op = "contains" =>
    LET t == AllTables[input[1]]
    IN  /\ ret <=> \E a \in Range(t.aliases) : to_lowercase(a) = to_lowercase(input[2])
        /\ input[1] = "EmptyLookupTable" => ~ret

\* C26: alias membership and alias lookup agree: for every country c of
\* get_countries() and every string s, c.aliases.contains(s) is true if and
\* only if from_alias(s) returns Ok with a record equal to c.
C26_contains_agrees_with_from_alias ==
  op = "from_alias" =>
    \A c \in Countries :
      country_table_contains(c.aliases, input) <=> is_ok_eq(ret, c)

\* C27: every index entry points at the record that owns the key:
\* from_value(n) = Ok(c) implies c.value = n; from_code(s) = Ok(c) implies
\* c.code = s; from_alpha2(s) = Ok(c) implies c.alpha2 is the upper-case
\* form of s; from_alpha3(s) = Ok(c) implies c.alpha3 is the upper-case form
\* of s; and every record returned by any resolver is an element of
\* get_countries().
C27_entries_point_at_owner ==
  (op \in DOMAIN ErrorMessage /\ ret.ok) =>
    /\ op = "from_value" => ret.val.value = input
    /\ op = "from_code" => ret.val.code = input
    /\ op = "from_alpha2" => ret.val.alpha2 = to_uppercase(input)
    /\ op = "from_alpha3" => ret.val.alpha3 = to_uppercase(input)
    /\ ret.val \in Countries

\* from_alpha3 has returned a record on a lower-case code.
C27_witness ==
  /\ op = "from_alpha3"
  /\ input = "zwe"
  /\ ret.ok
  /\ ret.val.alpha3 = "ZWE"

\* Ordering::reverse
reverse(o) ==
  CASE o = "Less" -> "Greater" [] o = "Greater" -> "Less" [] o = "Equal" -> "Equal"

\* a.cmp(b) for every two records of get_countries(), by their places.
CmpTable ==
  [i \in DOMAIN get_countries |->
     [j \in DOMAIN get_countries |-> cmp(get_countries[i], get_countries[j])]]

\* C28: on the records of get_countries(), ordering and equality agree and
\* the order is total: a.cmp(b) is Equal exactly when a == b, a.cmp(b) is
\* the reverse of b.cmp(a), and cmp is transitive.
C28_cmp_total_and_agrees_with_eq ==
  op = "cmp" =>
    LET a == input[1]
        b == input[2]
    IN  /\ ret = "Equal" <=> eq(a.val, b.val)
        /\ ret = reverse(cmp(b.val, a.val))
        /\ \A k \in DOMAIN get_countries :
             (ret = CmpTable[b.pos][k] /\ ret # "Equal") => CmpTable[a.pos][k] = ret

\* Two distinct records have been compared: the first of the array is Less
\* than the last.
C28_witness ==
  /\ op = "cmp"
  /\ input[1].pos = 1
  /\ input[2].pos = Len(get_countries)
  /\ ret = "Less"
  /\ ~eq(input[1].val, input[2].val)

\* C29: comparison between alias tables is antisymmetric: for any two
\* lookup tables x and y, EmptyLookupTable included, x.partial_cmp(y) =
\* Greater implies y.partial_cmp(x) = Less, and x.partial_cmp(y) = Equal
\* implies y.partial_cmp(x) = Equal and x == y.
C29_table_partial_cmp_antisymmetric ==
  op = "partial_cmp" =>
    LET x == AllTables[input[1]]
        y == AllTables[input[2]]
    IN  /\ ret = Some("Greater") => table_partial_cmp(y, x) = Some("Less")
        /\ ret = Some("Equal") =>
             (table_partial_cmp(y, x) = Some("Equal") /\ table_eq(x, y))

\* The country!(...) declaration of a record, found by its code.
declaration(c) ==
  Declarations[CHOOSE f \in DOMAIN Declarations : Declarations[f][1] = c.code]

\* The alias literals of a declaration: what follows the table name.
declared_aliases(decl) == IF Len(decl) = 5 THEN <<>> ELSE SubSeq(decl, 7, Len(decl))

\* C30: the alias literals written in a country's country!(...) declaration
\* are the aliases the record carries: for every record, the sequence
\* yielded by aliases.iter() equals the alias list of its declaration, and a
\* record declared without aliases has an empty alias table.
C30_declared_aliases_are_carried ==
  op = "get_countries" =>
    \A i \in DOMAIN ret :
      iter(ret[i].aliases) = declared_aliases(declaration(ret[i]))
====
